---------------------------- MODULE Spec2Model ----------------------------
(***************************************************************************)
(* A model of the AgentMira dashboard front end: the comparison engine of  *)
(* the CompareProperties component (getComparison, getAnalysis,            *)
(* renderOverallWinner) and the request/response panels (compare, search,  *)
(* prediction, recommendation).                                            *)
(*                                                                         *)
(* Conventions.                                                            *)
(*   - A nullable value (string | null, Response | null) is a sequence of  *)
(*     length at most one: Null is <<>>, Some(x) is <<x>>.                 *)
(*   - A JavaScript number is a record [k, n, d]: k = "fin" is the         *)
(*     rational n/d with d > 0, k = "inf" is Infinity, k = "ninf" is       *)
(*     -Infinity and k = "nan" is NaN.  For the magnitudes used here the   *)
(*     IEEE quotient of two integers compares as the exact rational does.  *)
(*   - The text of an input field is a sequence of one-character strings.  *)
(***************************************************************************)
EXTENDS Integers, Sequences, FiniteSets, TLC

VARIABLES
    route,          \* the panel the Dashboard's <Routes> has mounted
    listing,        \* state of the Properties component
    compare,        \* state of the CompareProperties component
    search,         \* state of the SearchProperties component
    prediction,     \* state of the Prediction component
    recommendation, \* state of the Recommendation component
    net,            \* the fetch calls that have not settled yet, oldest first
    rendered        \* what renderComparisonResults last produced (Null: nothing)

vars == <<route, listing, compare, search, prediction, recommendation, net, rendered>>

Null == <<>>
Some(x) == <<x>>

---------------------------------------------------------------------------
(* JavaScript numbers                                                      *)

Num(i) == [k |-> "fin", n |-> i, d |-> 1]
NaN == [k |-> "nan", n |-> 0, d |-> 1]
PosInfinity == [k |-> "inf", n |-> 0, d |-> 1]
NegInfinity == [k |-> "ninf", n |-> 0, d |-> 1]

\* a / b for integers a and b, as the JavaScript operator / gives it
Div(a, b) ==
    IF b = 0
    THEN IF a > 0 THEN PosInfinity ELSE IF a < 0 THEN NegInfinity ELSE NaN
    ELSE IF b > 0 THEN [k |-> "fin", n |-> a, d |-> b]
                  ELSE [k |-> "fin", n |-> 0 - a, d |-> 0 - b]

IsFinite(x) == x.k = "fin"

\* x === y on numbers: NaN equals nothing, itself included
StrictEq(x, y) ==
    IF x.k = "nan" \/ y.k = "nan" THEN FALSE
    ELSE IF x.k = "fin" /\ y.k = "fin" THEN x.n * y.d = y.n * x.d
    ELSE x.k = y.k

\* x < y on numbers: every comparison with NaN is false
LessThan(x, y) ==
    IF x.k = "nan" \/ y.k = "nan" THEN FALSE
    ELSE IF x.k = "fin" /\ y.k = "fin" THEN x.n * y.d < y.n * x.d
    ELSE IF x.k = y.k THEN FALSE
    ELSE x.k = "ninf" \/ y.k = "inf"

GreaterThan(x, y) == LessThan(y, x)

LessOrEqual(x, y) == LessThan(x, y) \/ StrictEq(x, y)
GreaterOrEqual(x, y) == GreaterThan(x, y) \/ StrictEq(x, y)
isNaN(x) == x.k = "nan"

Negate(x) ==
    CASE x.k = "fin"  -> [k |-> "fin", n |-> 0 - x.n, d |-> x.d]
      [] x.k = "inf"  -> NegInfinity
      [] x.k = "ninf" -> PosInfinity
      [] OTHER        -> NaN

---------------------------------------------------------------------------
(* Text of input fields: sequences of one-character strings                *)

RECURSIVE TrimStart(_)
TrimStart(s) == IF s # <<>> /\ Head(s) = " " THEN TrimStart(Tail(s)) ELSE s

RECURSIVE TrimEnd(_)
TrimEnd(s) ==
    IF s # <<>> /\ s[Len(s)] = " " THEN TrimEnd(SubSeq(s, 1, Len(s) - 1)) ELSE s

\* String.prototype.trim
Trim(s) == TrimEnd(TrimStart(s))

DigitChars == <<"0", "1", "2", "3", "4", "5", "6", "7", "8", "9">>
IsDigit(c) == \E i \in 1..10 : DigitChars[i] = c
DigitValue(c) == (CHOOSE i \in 1..10 : DigitChars[i] = c) - 1
AllDigits(s) == \A i \in 1..Len(s) : IsDigit(s[i])

RECURSIVE DecimalValue(_)
DecimalValue(s) ==
    IF s = <<>> THEN 0
    ELSE 10 * DecimalValue(SubSeq(s, 1, Len(s) - 1)) + DigitValue(s[Len(s)])

RECURSIVE PowerOfTen(_)
PowerOfTen(e) == IF e = 0 THEN 1 ELSE 10 * PowerOfTen(e - 1)

RECURSIVE LeadingDigits(_)
LeadingDigits(s) ==
    IF s # <<>> /\ IsDigit(Head(s)) THEN <<Head(s)>> \o LeadingDigits(Tail(s)) ELSE <<>>

HasSign(s) == s # <<>> /\ Head(s) \in {"-", "+"}
Unsigned(s) == IF HasSign(s) THEN Tail(s) ELSE s
Signed(s, x) == IF s # <<>> /\ Head(s) = "-" THEN Negate(x) ELSE x

\* an unsigned decimal literal: digits, digits "." digits, "." digits, digits "."
UnsignedDecimal(s) ==
    LET dots == {i \in 1..Len(s) : s[i] = "."}
    IN  IF dots = {}
        THEN IF s # <<>> /\ AllDigits(s) THEN Num(DecimalValue(s)) ELSE NaN
        ELSE IF Cardinality(dots) > 1 THEN NaN
        ELSE LET at == CHOOSE i \in dots : TRUE
                 whole == SubSeq(s, 1, at - 1)
                 frac == SubSeq(s, at + 1, Len(s))
             IN  IF AllDigits(whole) /\ AllDigits(frac) /\ Len(whole) + Len(frac) > 0
                 THEN [ k |-> "fin",
                        n |-> DecimalValue(whole) * PowerOfTen(Len(frac)) + DecimalValue(frac),
                        d |-> PowerOfTen(Len(frac)) ]
                 ELSE NaN

\* Number(text): blank text is 0, a decimal literal its value, anything else NaN
Number(text) ==
    LET t == Trim(text)
    IN  IF t = <<>> THEN Num(0) ELSE Signed(t, UnsignedDecimal(Unsigned(t)))

\* parseInt(text): the leading sign and digits after leading blanks, NaN if none
parseInt(text) ==
    LET t == TrimStart(text)
        digits == LeadingDigits(Unsigned(t))
    IN  IF digits = <<>> THEN NaN ELSE Signed(t, Num(DecimalValue(digits)))

---------------------------------------------------------------------------
(* The comparison engine                                                   *)

Tie == [winner |-> "Tie", class |-> "tie"]
Property1Wins == [winner |-> "Property 1", class |-> "winner-1"]
Property2Wins == [winner |-> "Property 2", class |-> "winner-2"]

\* a plausible slip: the tie test is left out of the lower-is-better path
getComparison_NoTieWhenLower(val1, val2, higherIsBetter) ==
    IF higherIsBetter /\ StrictEq(val1, val2) THEN Tie
    ELSE LET prop1Wins == IF higherIsBetter THEN GreaterThan(val1, val2)
                                            ELSE LessThan(val1, val2)
         IN  IF prop1Wins THEN Property1Wins ELSE Property2Wins

getComparison(val1, val2, higherIsBetter) ==
    IF StrictEq(val1, val2) THEN Tie
    ELSE LET prop1Wins == IF higherIsBetter THEN GreaterThan(val1, val2)
                                            ELSE LessThan(val1, val2)
         IN  IF prop1Wins THEN Property1Wins ELSE Property2Wins

\* a plausible slip: the third argument of the commute comparison is left out
getAnalysis_CommuteHigher(property1, property2) ==
    [ price     |-> getComparison(Num(property1.price), Num(property2.price), FALSE),
      size      |-> getComparison(Num(property1.size_sqft), Num(property2.size_sqft), TRUE),
      bedrooms  |-> getComparison(Num(property1.bedrooms), Num(property2.bedrooms), TRUE),
      bathrooms |-> getComparison(Num(property1.bathrooms), Num(property2.bathrooms), TRUE),
      school    |-> getComparison(Num(property1.school_rating), Num(property2.school_rating), TRUE),
      commute   |-> getComparison(Num(property1.commute_time), Num(property2.commute_time), TRUE),
      year      |-> getComparison(Num(property1.year_built), Num(property2.year_built), TRUE),
      value     |-> getComparison(Div(property1.price, property1.size_sqft),
                                  Div(property2.price, property2.size_sqft), FALSE) ]

\* a plausible slip: the value comparison divides size by price
getAnalysis_ValueInverted(property1, property2) ==
    [ price     |-> getComparison(Num(property1.price), Num(property2.price), FALSE),
      size      |-> getComparison(Num(property1.size_sqft), Num(property2.size_sqft), TRUE),
      bedrooms  |-> getComparison(Num(property1.bedrooms), Num(property2.bedrooms), TRUE),
      bathrooms |-> getComparison(Num(property1.bathrooms), Num(property2.bathrooms), TRUE),
      school    |-> getComparison(Num(property1.school_rating), Num(property2.school_rating), TRUE),
      commute   |-> getComparison(Num(property1.commute_time), Num(property2.commute_time), FALSE),
      year      |-> getComparison(Num(property1.year_built), Num(property2.year_built), TRUE),
      value     |-> getComparison(Div(property1.size_sqft, property1.price),
                                  Div(property2.size_sqft, property2.price), FALSE) ]

getAnalysis(property1, property2) ==
    [ price     |-> getComparison(Num(property1.price), Num(property2.price), FALSE),
      size      |-> getComparison(Num(property1.size_sqft), Num(property2.size_sqft), TRUE),
      bedrooms  |-> getComparison(Num(property1.bedrooms), Num(property2.bedrooms), TRUE),
      bathrooms |-> getComparison(Num(property1.bathrooms), Num(property2.bathrooms), TRUE),
      school    |-> getComparison(Num(property1.school_rating), Num(property2.school_rating), TRUE),
      commute   |-> getComparison(Num(property1.commute_time), Num(property2.commute_time), FALSE),
      year      |-> getComparison(Num(property1.year_built), Num(property2.year_built), TRUE),
      value     |-> getComparison(Div(property1.price, property1.size_sqft),
                                  Div(property2.price, property2.size_sqft), FALSE) ]

\* Object.values(analysis): the values in the order the keys were inserted
AnalysisValues(analysis) ==
    << analysis.price, analysis.size, analysis.bedrooms, analysis.bathrooms,
       analysis.school, analysis.commute, analysis.year, analysis.value >>

\* allComparisons.filter(item => item.class === cls).length
CountClass(allComparisons, cls) ==
    Cardinality({i \in 1..Len(allComparisons) : allComparisons[i].class = cls})

\* a plausible slip: the garage flag is tallied in place of the amenity count
AllComparisons_GarageTallied(analysis, result) ==
    Append(AnalysisValues(analysis),
           getComparison(Num(IF result.property1.has_garage THEN 1 ELSE 0),
                         Num(IF result.property2.has_garage THEN 1 ELSE 0), TRUE))

\* [...analysisValues, amenitiesComp]
AllComparisons(analysis, result) ==
    LET analysisValues == AnalysisValues(analysis)
        amenitiesComp == getComparison(Num(Len(result.property1.amenities)),
                                       Num(Len(result.property2.amenities)), TRUE)
    IN  Append(analysisValues, amenitiesComp)

\* a plausible slip: everything property 1 did not win is reported as a tie
Tally_TiesAreTheRest(allComparisons) ==
    [ property1Wins |-> CountClass(allComparisons, "winner-1"),
      property2Wins |-> CountClass(allComparisons, "winner-2"),
      ties          |-> Len(allComparisons) - CountClass(allComparisons, "winner-1") ]

\* the three filter(...).length counts
Tally(allComparisons) ==
    [ property1Wins |-> CountClass(allComparisons, "winner-1"),
      property2Wins |-> CountClass(allComparisons, "winner-2"),
      ties          |-> CountClass(allComparisons, "tie") ]

\* a plausible slip: >= in the first test, so equal counts name property 1
OverallVerdict_GreaterOrEqual(property1Wins, property2Wins, result) ==
    IF property1Wins >= property2Wins
    THEN [ winnerClass |-> "overall-winner-1",
           overallWinner |-> <<"Property", result.property1.id>> ]
    ELSE IF property2Wins > property1Wins
    THEN [ winnerClass |-> "overall-winner-2",
           overallWinner |-> <<"Property", result.property2.id>> ]
    ELSE [ winnerClass |-> "overall-tie", overallWinner |-> <<"It's a Tie!">> ]

\* a plausible slip: the second branch tests the first branch's condition
\* negated, so it also takes the equal counts
OverallVerdict_SecondTakesTies(property1Wins, property2Wins, result) ==
    IF property1Wins > property2Wins
    THEN [ winnerClass |-> "overall-winner-1",
           overallWinner |-> <<"Property", result.property1.id>> ]
    ELSE IF property2Wins >= property1Wins
    THEN [ winnerClass |-> "overall-winner-2",
           overallWinner |-> <<"Property", result.property2.id>> ]
    ELSE [ winnerClass |-> "overall-tie", overallWinner |-> <<"It's a Tie!">> ]

\* the if / else if / else that picks overallWinner and winnerClass
OverallVerdict(property1Wins, property2Wins, result) ==
    IF property1Wins > property2Wins
    THEN [ winnerClass |-> "overall-winner-1",
           overallWinner |-> <<"Property", result.property1.id>> ]
    ELSE IF property2Wins > property1Wins
    THEN [ winnerClass |-> "overall-winner-2",
           overallWinner |-> <<"Property", result.property2.id>> ]
    ELSE [ winnerClass |-> "overall-tie", overallWinner |-> <<"It's a Tie!">> ]

renderOverallWinner(analysis, result) ==
    LET allComparisons == AllComparisons(analysis, result)
        counts == Tally(allComparisons)
        verdict == OverallVerdict(counts.property1Wins, counts.property2Wins, result)
    IN  [ allComparisons |-> allComparisons,
          property1Wins  |-> counts.property1Wins,
          property2Wins  |-> counts.property2Wins,
          ties           |-> counts.ties,
          winnerClass    |-> verdict.winnerClass,
          overallWinner  |-> verdict.overallWinner ]

\* the price-per-square-foot row: the two quotients the table shows
PricePerSqft(result) ==
    << Div(result.property1.price, result.property1.size_sqft),
       Div(result.property2.price, result.property2.size_sqft) >>

renderComparisonResults(comparisonResult) ==
    IF comparisonResult = Null THEN Null
    ELSE LET result == comparisonResult[1]
             analysis == getAnalysis(result.property1, result.property2)
         IN  Some([ analysis     |-> analysis,
                    pricePerSqft |-> PricePerSqft(result),
                    overall      |-> renderOverallWinner(analysis, result) ])

---------------------------------------------------------------------------
(* Property records and comparison responses                               *)

MaxAmenities == 2

\* a list of n amenity names
AmenityList(n) == [i \in 1..n |-> "Gym"]

Prices == {0, 300000, 320000}
Sizes == {0, 1400, 1500}

\* The first record of a response takes every attribute below, at, and above
\* the value the second record has, so that every ordering of every
\* attribute pair occurs in every combination with the others; price and
\* size, which also feed the derived price per square foot, vary on both
\* sides.
FirstProperties ==
    [ id : {1}, title : {"Maple House"}, location : {"Austin"},
      price : Prices, size_sqft : Sizes,
      bedrooms : {2, 3, 4}, bathrooms : {1, 2, 3},
      amenities : {AmenityList(n) : n \in 0..MaxAmenities},
      school_rating : {3, 4, 5}, commute_time : {15, 30, 45},
      has_garage : {TRUE}, has_garden : {FALSE}, has_pool : {FALSE},
      year_built : {1990, 2005, 2020} ]

SecondProperties ==
    [ id : {2}, title : {"Oak Cottage"}, location : {"Dallas"},
      price : Prices, size_sqft : Sizes,
      bedrooms : {3}, bathrooms : {2},
      amenities : {AmenityList(1)},
      school_rating : {4}, commute_time : {30},
      has_garage : {FALSE}, has_garden : {TRUE}, has_pool : {FALSE},
      year_built : {2005} ]

\* Records that also differ in the fields the table shows without a winner
\* (title, location and the three flags), over fewer numeric values.
Titles == {"Maple House", "Oak Cottage"}
Locations == {"Austin", "Dallas"}

FirstDisplayProperties ==
    [ id : {1}, title : Titles, location : Locations,
      price : {300000}, size_sqft : {0, 1500},
      bedrooms : {2, 3, 4}, bathrooms : {2},
      amenities : {AmenityList(1)},
      school_rating : {4}, commute_time : {30},
      has_garage : BOOLEAN, has_garden : BOOLEAN, has_pool : BOOLEAN,
      year_built : {2005} ]

SecondDisplayProperties ==
    [ id : {2}, title : Titles, location : Locations,
      price : {320000}, size_sqft : {1400},
      bedrooms : {3}, bathrooms : {2},
      amenities : {AmenityList(1)},
      school_rating : {4}, commute_time : {30},
      has_garage : BOOLEAN, has_garden : BOOLEAN, has_pool : BOOLEAN,
      year_built : {2005} ]

ComparisonResponses ==
    [ status : {"success"}, property1 : FirstProperties, property2 : SecondProperties ]
    \cup
    [ status : {"success"}, property1 : FirstDisplayProperties,
      property2 : SecondDisplayProperties ]

---------------------------------------------------------------------------
(* The panels: component state                                             *)

CompareInit ==
    [ compareId1 |-> <<"1">>, compareId2 |-> <<"2">>,
      comparisonResult |-> Null, compareLoading |-> FALSE, error |-> Null ]

PropertiesInit ==
    [ properties |-> <<>>, totalProperties |-> 0, loading |-> TRUE, error |-> Null,
      selectedProperty |-> Null, showModal |-> FALSE, detailsLoading |-> FALSE ]

SearchInit ==
    [ location |-> <<>>, budget |-> <<>>, bedrooms |-> <<>>, bathrooms |-> <<>>,
      minSizesqft |-> <<>>, amenitiesInput |-> <<>>,
      searchResults |-> Null, loading |-> FALSE, error |-> Null ]

PredictionInit ==
    [ propertyType |-> "SFH", lotArea |-> <<>>, buildingArea |-> <<>>,
      bedrooms |-> <<>>, bathrooms |-> <<>>, yearBuilt |-> <<>>,
      hasPool |-> FALSE, hasGarage |-> FALSE, schoolRating |-> <<>>,
      predictionResult |-> Null, loading |-> FALSE, error |-> Null ]

RecommendationInit ==
    [ userBudget |-> <<>>, userMinBedrooms |-> <<>>,
      recommendationResult |-> Null, loading |-> FALSE, error |-> Null ]

\* new Date().getFullYear()
CurrentYear == 2026

---------------------------------------------------------------------------
(* Requests and their outcomes                                             *)

MaxInFlight == 2

JsonHeaders == {<<"Content-Type", "application/json">>}

Request(call, method, url, body) ==
    [call |-> call, method |-> method, url |-> url, headers |-> JsonHeaders, body |-> body]

\* the statuses of a response whose ok flag is false
NonOkStatuses == {400, 404, 500}

\* `HTTP error! status: ${response.status}`
HttpError(status) == "HTTP error! status: " \o ToString(status)

\* the message of the TypeError a fetch rejects with, and of the SyntaxError
\* response.json() rejects with
FetchRejectMessage == "Failed to fetch"
JsonRejectMessage == "Unexpected token < in JSON at position 0"

\* the parsed 2xx bodies a call may receive
CompareBodies ==
    { [ status |-> st,
        property1 |-> [ id |-> 1, title |-> "Maple House", location |-> "Austin",
                        price |-> 300000, size_sqft |-> 1500, bedrooms |-> 3,
                        bathrooms |-> 2, amenities |-> AmenityList(2),
                        school_rating |-> 4, commute_time |-> 30,
                        has_garage |-> TRUE, has_garden |-> FALSE, has_pool |-> FALSE,
                        year_built |-> 2005 ],
        property2 |-> [ id |-> 2, title |-> "Oak Cottage", location |-> "Dallas",
                        price |-> p, size_sqft |-> 1400, bedrooms |-> 3,
                        bathrooms |-> 2, amenities |-> AmenityList(1),
                        school_rating |-> 4, commute_time |-> 30,
                        has_garage |-> FALSE, has_garden |-> TRUE, has_pool |-> FALSE,
                        year_built |-> 2005 ] ]
        : p \in {300000, 320000}, st \in {"success", "error"} }

SearchBodies ==
    { [status |-> "success", total_properties |-> n, properties |-> [i \in 1..n |-> i]]
        : n \in {0, 1} }
    \cup { [status |-> "error", message |-> "Location not found"] }

PredictionBodies ==
    { [status |-> st, predicted_price |-> 450000] : st \in {"success", "error"} }

RecommendationBodies ==
    { [status |-> "success", total_properties |-> n,
       recommended_properties |-> [i \in 1..n |-> i]] : n \in {0, 1} }
    \cup { [status |-> "error", message |-> "No properties found"] }

\* how a pending call settles: a 2xx response with a parsed body, a 2xx
\* response whose body does not parse, a response that is not ok, or a
\* rejected fetch
Outcomes(bodies) ==
    [kind : {"ok"}, status : {200}, body : bodies]
    \cup [kind : {"badjson"}, status : {200}, body : {CHOOSE b \in bodies : TRUE}]
    \cup [kind : {"status"}, status : NonOkStatuses, body : {CHOOSE b \in bodies : TRUE}]
    \cup [kind : {"reject"}, status : {0}, body : {CHOOSE b \in bodies : TRUE}]

\* the message of the Error the try block ends with (caught and stored)
ThrownMessage(outcome, statusMessage) ==
    CASE outcome.kind = "status"  -> statusMessage
      [] outcome.kind = "reject"  -> FetchRejectMessage
      [] outcome.kind = "badjson" -> JsonRejectMessage

RemoveAt(seq, i) == SubSeq(seq, 1, i - 1) \o SubSeq(seq, i + 1, Len(seq))

Pending(call) == {i \in 1..Len(net) : net[i].call = call}

---------------------------------------------------------------------------
(* CompareProperties                                                       *)

\* a plausible slip: the test for two equal identifiers is left out
compareProperties_SameIdsSent ==
    /\ route = "compare"
    /\ Len(net) < MaxInFlight
    /\ LET id1 == parseInt(compare.compareId1)
           id2 == parseInt(compare.compareId2)
       IN  IF compare.compareId1 = <<>> \/ compare.compareId2 = <<>>
           THEN /\ compare' = [compare EXCEPT !.error = Some("Please enter both property IDs")]
                /\ net' = net
           ELSE IF isNaN(id1) \/ isNaN(id2)
           THEN /\ compare' = [compare EXCEPT !.error = Some("Please enter valid numeric IDs")]
                /\ net' = net
           ELSE /\ compare' = [compare EXCEPT !.compareLoading = TRUE, !.error = Null]
                /\ net' = Append(net, Request("compare", "POST",
                                              "http://127.0.0.1:8000/comparebyid",
                                              [id1 |-> id1, id2 |-> id2]))
    /\ rendered' = renderComparisonResults(compare'.comparisonResult)
    /\ UNCHANGED <<route, listing, search, prediction, recommendation>>

\* compareProperties up to the await of fetch
compareProperties ==
    /\ route = "compare"
    /\ Len(net) < MaxInFlight
    /\ LET id1 == parseInt(compare.compareId1)
           id2 == parseInt(compare.compareId2)
       IN  IF compare.compareId1 = <<>> \/ compare.compareId2 = <<>>
           THEN /\ compare' = [compare EXCEPT !.error = Some("Please enter both property IDs")]
                /\ net' = net
           ELSE IF compare.compareId1 = compare.compareId2
           THEN /\ compare' = [compare EXCEPT !.error = Some("Please enter different property IDs")]
                /\ net' = net
           ELSE IF isNaN(id1) \/ isNaN(id2)
           THEN /\ compare' = [compare EXCEPT !.error = Some("Please enter valid numeric IDs")]
                /\ net' = net
           ELSE /\ compare' = [compare EXCEPT !.compareLoading = TRUE, !.error = Null]
                /\ net' = Append(net, Request("compare", "POST",
                                              "http://127.0.0.1:8000/comparebyid",
                                              [id1 |-> id1, id2 |-> id2]))
    /\ rendered' = renderComparisonResults(compare'.comparisonResult)
    /\ UNCHANGED <<route, listing, search, prediction, recommendation>>

\* a plausible slip: 404 is given the generic message like any other status
CompareStatusMessage_AlwaysGeneric(status) == HttpError(status)

\* the message for a response that is not ok
CompareStatusMessage(status) ==
    IF status = 404 THEN "Property ID not found" ELSE HttpError(status)

\* a variant that drops the stored result when the call fails
compareSettledWith_ClearsStale(i, o) ==
    /\ route = "compare"
    /\ net' = RemoveAt(net, i)
    /\ compare' =
          IF o.kind = "ok"
          THEN [compare EXCEPT !.comparisonResult = Some(o.body),
                               !.compareLoading = FALSE]
          ELSE [compare EXCEPT
                  !.error = Some(ThrownMessage(o, CompareStatusMessage(o.status))),
                  !.comparisonResult = Null,
                  !.compareLoading = FALSE]
    /\ rendered' = renderComparisonResults(compare'.comparisonResult)
    /\ UNCHANGED <<route, listing, search, prediction, recommendation>>

\* compareProperties from the settlement of fetch to the end of finally
compareSettledWith(i, o) ==
    /\ route = "compare"
    /\ net' = RemoveAt(net, i)
    /\ compare' =
          IF o.kind = "ok"
          THEN [compare EXCEPT !.comparisonResult = Some(o.body),
                               !.compareLoading = FALSE]
          ELSE [compare EXCEPT
                  !.error = Some(ThrownMessage(o, CompareStatusMessage(o.status))),
                  !.compareLoading = FALSE]
    /\ rendered' = renderComparisonResults(compare'.comparisonResult)
    /\ UNCHANGED <<route, listing, search, prediction, recommendation>>

compareSettled ==
    \E i \in Pending("compare"), o \in Outcomes(CompareBodies) : compareSettledWith(i, o)

---------------------------------------------------------------------------
(* SearchProperties                                                        *)

\* text.split(','): the pieces between the commas
RECURSIVE SplitComma(_)
SplitComma(text) ==
    LET commas == {i \in 1..Len(text) : text[i] = ","}
    IN  IF commas = {} THEN <<text>>
        ELSE LET at == CHOOSE i \in commas : \A j \in commas : i <= j
             IN  <<SubSeq(text, 1, at - 1)>> \o SplitComma(SubSeq(text, at + 1, Len(text)))

\* pieces.map(item => item.trim()).filter(Boolean)
RECURSIVE TrimmedNonEmpty(_)
TrimmedNonEmpty(pieces) ==
    IF pieces = <<>> THEN <<>>
    ELSE LET t == Trim(Head(pieces))
         IN  (IF t = <<>> THEN <<>> ELSE <<t>>) \o TrimmedNonEmpty(Tail(pieces))

\* a preference that is sent only when its field holds a number above zero
PositivePreference(text) ==
    IF Trim(text) # <<>> /\ GreaterThan(Number(text), Num(0)) THEN Some(Number(text)) ELSE Null

\* buildPreferences: Null stands for undefined, a Null field for an absent key
buildPreferences ==
    LET amenities == IF Trim(search.amenitiesInput) # <<>>
                     THEN TrimmedNonEmpty(SplitComma(search.amenitiesInput)) ELSE <<>>
        prefs == [ bedrooms      |-> PositivePreference(search.bedrooms),
                   bathrooms     |-> PositivePreference(search.bathrooms),
                   min_size_sqft |-> PositivePreference(search.minSizesqft),
                   amenities     |-> IF Len(amenities) > 0 THEN Some(amenities) ELSE Null ]
    IN  IF \E key \in DOMAIN prefs : prefs[key] # Null THEN Some(prefs) ELSE Null

\* a plausible slip: the location test is left out
handleSearch_LocationNotChecked ==
    /\ route = "search"
    /\ Len(net) < MaxInFlight
    /\ IF Trim(search.budget) = <<>> \/ LessOrEqual(Number(search.budget), Num(0))
       THEN /\ search' = [search EXCEPT !.error = Some("Please enter a valid budget amount")]
            /\ net' = net
       ELSE /\ search' = [search EXCEPT !.loading = TRUE, !.error = Null]
            /\ net' = Append(net, Request("search", "POST",
                                          "http://127.0.0.1:8000/findproperties",
                                          [ location    |-> Trim(search.location),
                                            budget      |-> Number(search.budget),
                                            preferences |-> buildPreferences ]))
    /\ UNCHANGED <<route, listing, compare, prediction, recommendation, rendered>>

\* a plausible slip: < in place of <= in the budget test, so zero is sent
handleSearch_ZeroBudgetAccepted ==
    /\ route = "search"
    /\ Len(net) < MaxInFlight
    /\ IF Trim(search.location) = <<>>
       THEN /\ search' = [search EXCEPT !.error = Some("Location is required")]
            /\ net' = net
       ELSE IF Trim(search.budget) = <<>> \/ LessThan(Number(search.budget), Num(0))
       THEN /\ search' = [search EXCEPT !.error = Some("Please enter a valid budget amount")]
            /\ net' = net
       ELSE /\ search' = [search EXCEPT !.loading = TRUE, !.error = Null]
            /\ net' = Append(net, Request("search", "POST",
                                          "http://127.0.0.1:8000/findproperties",
                                          [ location    |-> Trim(search.location),
                                            budget      |-> Number(search.budget),
                                            preferences |-> buildPreferences ]))
    /\ UNCHANGED <<route, listing, compare, prediction, recommendation, rendered>>

\* handleSearch up to the await of fetch
handleSearch ==
    /\ route = "search"
    /\ Len(net) < MaxInFlight
    /\ IF Trim(search.location) = <<>>
       THEN /\ search' = [search EXCEPT !.error = Some("Location is required")]
            /\ net' = net
       ELSE IF Trim(search.budget) = <<>> \/ LessOrEqual(Number(search.budget), Num(0))
       THEN /\ search' = [search EXCEPT !.error = Some("Please enter a valid budget amount")]
            /\ net' = net
       ELSE /\ search' = [search EXCEPT !.loading = TRUE, !.error = Null]
            /\ net' = Append(net, Request("search", "POST",
                                          "http://127.0.0.1:8000/findproperties",
                                          [ location    |-> Trim(search.location),
                                            budget      |-> Number(search.budget),
                                            preferences |-> buildPreferences ]))
    /\ UNCHANGED <<route, listing, compare, prediction, recommendation, rendered>>

\* a plausible slip: 400 is given the generic message like any other status
SearchStatusMessage_AlwaysGeneric(status) == HttpError(status)

\* the message for a response that is not ok
SearchStatusMessage(status) ==
    IF status = 400 THEN "Invalid search parameters" ELSE HttpError(status)

\* a plausible slip: setLoading(false) ends the try block instead of being
\* in a finally, so a failure leaves the flag set
searchSettledWith_NoFinally(i, o) ==
    /\ route = "search"
    /\ net' = RemoveAt(net, i)
    /\ search' =
          IF o.kind = "ok"
          THEN [search EXCEPT !.searchResults = Some(o.body), !.loading = FALSE]
          ELSE [search EXCEPT
                  !.error = Some(ThrownMessage(o, SearchStatusMessage(o.status)))]
    /\ UNCHANGED <<route, listing, compare, prediction, recommendation, rendered>>

\* handleSearch from the settlement of fetch to the end of finally
searchSettledWith(i, o) ==
    /\ route = "search"
    /\ net' = RemoveAt(net, i)
    /\ search' =
          IF o.kind = "ok"
          THEN [search EXCEPT !.searchResults = Some(o.body), !.loading = FALSE]
          ELSE [search EXCEPT
                  !.error = Some(ThrownMessage(o, SearchStatusMessage(o.status))),
                  !.loading = FALSE]
    /\ UNCHANGED <<route, listing, compare, prediction, recommendation, rendered>>

searchSettled ==
    \E i \in Pending("search"), o \in Outcomes(SearchBodies) : searchSettledWith(i, o)

---------------------------------------------------------------------------
(* Prediction                                                              *)

\* a plausible slip: < in place of <= for the upper limit
validateField_ExclusiveMax(value, min, max) ==
    /\ Trim(value) # <<>>
    /\ ~isNaN(Number(value))
    /\ GreaterOrEqual(Number(value), min)
    /\ LessThan(Number(value), max)

validateField(value, min, max) ==
    /\ Trim(value) # <<>>
    /\ ~isNaN(Number(value))
    /\ GreaterOrEqual(Number(value), min)
    /\ LessOrEqual(Number(value), max)

\* Prediction.validateForm: the message of the first failing rule, or Null
PredictionValidateForm ==
    LET currentYear == CurrentYear
    IN  IF prediction.propertyType = "SFH" /\ ~validateField(prediction.lotArea, Num(1), PosInfinity)
        THEN Some("Please enter a valid lot area (greater than 0)")
        ELSE IF prediction.propertyType = "Condo"
                /\ ~validateField(prediction.buildingArea, Num(1), PosInfinity)
        THEN Some("Please enter a valid building area (greater than 0)")
        ELSE IF ~validateField(prediction.bedrooms, Num(0), Num(50))
        THEN Some("Please enter valid bedrooms (0-50)")
        ELSE IF ~validateField(prediction.bathrooms, Num(0), Num(20))
        THEN Some("Please enter valid bathrooms (0-20)")
        ELSE IF ~validateField(prediction.yearBuilt, Num(1800), Num(currentYear + 5))
        THEN Some("Please enter valid year built (1800-" \o ToString(currentYear + 5) \o ")")
        ELSE IF ~validateField(prediction.schoolRating, Num(1), Num(10))
        THEN Some("Please enter valid school rating (1-10)")
        ELSE Null

\* the predictionRequest object; a Null area stands for an absent key
PredictionRequest ==
    [ property_type |-> prediction.propertyType,
      bedrooms      |-> Number(prediction.bedrooms),
      bathrooms     |-> Number(prediction.bathrooms),
      year_built    |-> Number(prediction.yearBuilt),
      has_pool      |-> prediction.hasPool,
      has_garage    |-> prediction.hasGarage,
      school_rating |-> Number(prediction.schoolRating),
      lot_area      |-> IF prediction.propertyType = "SFH"
                        THEN Some(Number(prediction.lotArea)) ELSE Null,
      building_area |-> IF prediction.propertyType = "Condo"
                        THEN Some(Number(prediction.buildingArea)) ELSE Null ]

\* handlePredict up to the await of fetch
handlePredict ==
    /\ route = "prediction"
    /\ Len(net) < MaxInFlight
    /\ LET validationError == PredictionValidateForm
       IN  IF validationError # Null
           THEN /\ prediction' = [prediction EXCEPT !.error = validationError]
                /\ net' = net
           ELSE /\ prediction' = [prediction EXCEPT !.loading = TRUE, !.error = Null]
                /\ net' = Append(net, Request("predict", "POST",
                                              "https://agentmira-backend.onrender.com/predict",
                                              PredictionRequest))
    /\ UNCHANGED <<route, listing, compare, search, recommendation, rendered>>

PredictionStatusMessage(status) ==
    IF status = 400 THEN "Invalid request data" ELSE HttpError(status)

\* handlePredict from the settlement of fetch to the end of finally
predictSettledWith(i, o) ==
    /\ route = "prediction"
    /\ net' = RemoveAt(net, i)
    /\ prediction' =
          IF o.kind = "ok"
          THEN [prediction EXCEPT !.predictionResult = Some(o.body), !.loading = FALSE]
          ELSE [prediction EXCEPT
                  !.error = Some(ThrownMessage(o, PredictionStatusMessage(o.status))),
                  !.loading = FALSE]
    /\ UNCHANGED <<route, listing, compare, search, recommendation, rendered>>

predictSettled ==
    \E i \in Pending("predict"), o \in Outcomes(PredictionBodies) : predictSettledWith(i, o)

---------------------------------------------------------------------------
(* Recommendation                                                          *)

\* a plausible slip: the budget test accepts zero and negative budgets
RecommendationValidateForm_AnyBudget ==
    LET budget == Number(recommendation.userBudget)
        bedrooms == Number(recommendation.userMinBedrooms)
    IN  IF Trim(recommendation.userBudget) = <<>> \/ isNaN(budget)
        THEN Some("Please enter a valid budget (greater than 0)")
        ELSE IF Trim(recommendation.userMinBedrooms) = <<>> \/ isNaN(bedrooms)
                \/ LessThan(bedrooms, Num(1))
        THEN Some("Please enter valid minimum bedrooms (1 or greater)")
        ELSE Null

\* Recommendation.validateForm: the message of the first failing rule, or Null
RecommendationValidateForm ==
    LET budget == Number(recommendation.userBudget)
        bedrooms == Number(recommendation.userMinBedrooms)
    IN  IF Trim(recommendation.userBudget) = <<>> \/ isNaN(budget)
           \/ LessOrEqual(budget, Num(0))
        THEN Some("Please enter a valid budget (greater than 0)")
        ELSE IF Trim(recommendation.userMinBedrooms) = <<>> \/ isNaN(bedrooms)
                \/ LessThan(bedrooms, Num(1))
        THEN Some("Please enter valid minimum bedrooms (1 or greater)")
        ELSE Null

\* a plausible slip: the request is issued a second time
handleRecommendation_SentTwice ==
    /\ route = "recommendation"
    /\ Len(net) < MaxInFlight
    /\ LET validationError == RecommendationValidateForm
           request == Request("recommend", "POST", "http://127.0.0.1:8000/recommend",
                              [ user_budget       |-> Number(recommendation.userBudget),
                                user_min_bedrooms |-> Number(recommendation.userMinBedrooms) ])
       IN  IF validationError # Null
           THEN /\ recommendation' = [recommendation EXCEPT !.error = validationError]
                /\ net' = net
           ELSE /\ recommendation' = [recommendation EXCEPT !.loading = TRUE, !.error = Null]
                /\ net' = net \o <<request, request>>
    /\ UNCHANGED <<route, listing, compare, search, prediction, rendered>>

\* handleRecommendation up to the await of fetch
handleRecommendation ==
    /\ route = "recommendation"
    /\ Len(net) < MaxInFlight
    /\ LET validationError == RecommendationValidateForm
       IN  IF validationError # Null
           THEN /\ recommendation' = [recommendation EXCEPT !.error = validationError]
                /\ net' = net
           ELSE /\ recommendation' = [recommendation EXCEPT !.loading = TRUE, !.error = Null]
                /\ net' = Append(net, Request("recommend", "POST",
                                "http://127.0.0.1:8000/recommend",
                                [ user_budget       |-> Number(recommendation.userBudget),
                                  user_min_bedrooms |-> Number(recommendation.userMinBedrooms) ]))
    /\ UNCHANGED <<route, listing, compare, search, prediction, rendered>>

\* a plausible slip: only 400 is given the message, as in the other forms
RecommendationStatusMessage_Only400(status) ==
    IF status = 400 THEN "No properties found for your criteria" ELSE HttpError(status)

\* the message for a response that is not ok
RecommendationStatusMessage(status) ==
    IF status = 400 \/ status = 404
    THEN "No properties found for your criteria" ELSE HttpError(status)

\* handleRecommendation from the settlement of fetch to the end of finally
recommendSettledWith(i, o) ==
    /\ route = "recommendation"
    /\ net' = RemoveAt(net, i)
    /\ recommendation' =
          IF o.kind = "ok"
          THEN [recommendation EXCEPT !.recommendationResult = Some(o.body),
                                      !.loading = FALSE]
          ELSE [recommendation EXCEPT
                  !.error = Some(ThrownMessage(o, RecommendationStatusMessage(o.status))),
                  !.loading = FALSE]
    /\ UNCHANGED <<route, listing, compare, search, prediction, rendered>>

recommendSettled ==
    \E i \in Pending("recommend"), o \in Outcomes(RecommendationBodies) : recommendSettledWith(i, o)

---------------------------------------------------------------------------
(* Properties (the list panel)                                             *)

PropertySummaries ==
    << [id |-> 1, title |-> "Maple House", price |-> 300000, location |-> "Austin"],
       [id |-> 2, title |-> "Oak Cottage", price |-> 320000, location |-> "Dallas"] >>

\* parsed 2xx bodies of GET /properties; a Null properties is not an array
ListBodies ==
    [ status : {"success", "error"}, total_properties : {2},
      properties : {Some(PropertySummaries), Some(<<>>), Null} ]

\* parsed 2xx bodies of GET /properties/{id}; a Null property is absent
DetailBodies ==
    [ status : {"success", "error"},
      property : {Some([id |-> 1, title |-> "Maple House", bedrooms |-> 3]), Null} ]

\* fetchProperties up to the await of fetch
fetchProperties ==
    /\ route = "properties"
    /\ Len(net) < MaxInFlight
    /\ listing' = [listing EXCEPT !.loading = TRUE, !.error = Null]
    /\ net' = Append(net, Request("list", "GET", "http://127.0.0.1:8000/properties", Null))
    /\ UNCHANGED <<route, compare, search, prediction, recommendation, rendered>>

\* a plausible slip: the status of the body is not looked at
propertiesSettledWith_AnyStatus(i, o) ==
    /\ route = "properties"
    /\ net' = RemoveAt(net, i)
    /\ listing' =
          IF o.kind = "ok"
          THEN IF o.body.properties # Null
               THEN [listing EXCEPT !.properties = o.body.properties[1],
                                    !.totalProperties = o.body.total_properties,
                                    !.loading = FALSE]
               ELSE [listing EXCEPT !.properties = <<>>, !.totalProperties = 0,
                                    !.loading = FALSE]
          ELSE [listing EXCEPT
                  !.error = Some("Failed to fetch properties: "
                                 \o ThrownMessage(o, HttpError(o.status))),
                  !.loading = FALSE]
    /\ UNCHANGED <<route, compare, search, prediction, recommendation, rendered>>

\* fetchProperties from the settlement of fetch to the end of finally
propertiesSettledWith(i, o) ==
    /\ route = "properties"
    /\ net' = RemoveAt(net, i)
    /\ listing' =
          IF o.kind = "ok"
          THEN IF o.body.status = "success" /\ o.body.properties # Null
               THEN [listing EXCEPT !.properties = o.body.properties[1],
                                    !.totalProperties = o.body.total_properties,
                                    !.loading = FALSE]
               ELSE [listing EXCEPT !.properties = <<>>, !.totalProperties = 0,
                                    !.loading = FALSE]
          ELSE [listing EXCEPT
                  !.error = Some("Failed to fetch properties: "
                                 \o ThrownMessage(o, HttpError(o.status))),
                  !.loading = FALSE]
    /\ UNCHANGED <<route, compare, search, prediction, recommendation, rendered>>

propertiesSettled ==
    \E i \in Pending("list"), o \in Outcomes(ListBodies) : propertiesSettledWith(i, o)

\* fetch(url) without an init object: a GET with no headers of its own
BareRequest(call, url) ==
    [call |-> call, method |-> "GET", url |-> url, headers |-> {}, body |-> Null]

\* fetchPropertyDetails up to the await of fetch
fetchPropertyDetails(propertyId) ==
    /\ route = "properties"
    /\ Len(net) < MaxInFlight
    /\ listing' = [listing EXCEPT !.detailsLoading = TRUE]
    /\ net' = Append(net, BareRequest("detail", "http://127.0.0.1:8000/properties/"
                                                \o ToString(propertyId)))
    /\ UNCHANGED <<route, compare, search, prediction, recommendation, rendered>>

\* a plausible slip: setError(null) is added to the success path
detailsSettledWith_ClearsError(i, o) ==
    /\ route = "properties"
    /\ net' = RemoveAt(net, i)
    /\ listing' =
          IF o.kind = "ok"
          THEN IF o.body.status = "success" /\ o.body.property # Null
               THEN [listing EXCEPT !.selectedProperty = o.body.property,
                                    !.showModal = TRUE,
                                    !.error = Null,
                                    !.detailsLoading = FALSE]
               ELSE [listing EXCEPT !.detailsLoading = FALSE]
          ELSE [listing EXCEPT
                  !.error = Some("Failed to fetch details: "
                                 \o ThrownMessage(o, HttpError(o.status))),
                  !.detailsLoading = FALSE]
    /\ UNCHANGED <<route, compare, search, prediction, recommendation, rendered>>

\* fetchPropertyDetails from the settlement of fetch to the end of finally
detailsSettledWith(i, o) ==
    /\ route = "properties"
    /\ net' = RemoveAt(net, i)
    /\ listing' =
          IF o.kind = "ok"
          THEN IF o.body.status = "success" /\ o.body.property # Null
               THEN [listing EXCEPT !.selectedProperty = o.body.property,
                                    !.showModal = TRUE,
                                    !.detailsLoading = FALSE]
               ELSE [listing EXCEPT !.detailsLoading = FALSE]
          ELSE [listing EXCEPT
                  !.error = Some("Failed to fetch details: "
                                 \o ThrownMessage(o, HttpError(o.status))),
                  !.detailsLoading = FALSE]
    /\ UNCHANGED <<route, compare, search, prediction, recommendation, rendered>>

detailsSettled ==
    \E i \in Pending("detail"), o \in Outcomes(DetailBodies) : detailsSettledWith(i, o)

\* a plausible slip: setShowModal(false) is left out
closeModal_OnlyClearsProperty ==
    /\ route = "properties"
    /\ listing' = [listing EXCEPT !.selectedProperty = Null]
    /\ UNCHANGED <<route, compare, search, prediction, recommendation, net, rendered>>

\* Properties.closeModal
closeModal ==
    /\ route = "properties"
    /\ listing' = [listing EXCEPT !.showModal = FALSE, !.selectedProperty = Null]
    /\ UNCHANGED <<route, compare, search, prediction, recommendation, net, rendered>>

---------------------------------------------------------------------------
(* The handlers on their own: a panel is mounted, its fields hold text the *)
(* user entered, and its submit handler is invoked (whatever the disabled  *)
(* attribute of the button it is bound to) while its calls settle.         *)

\* what the two type="number" identifier fields may hold
CompareIdTexts == { <<>>, <<"1">>, <<"2">>, <<"0", "1">>, <<".", "5">> }

LocationTexts == { <<>>, <<" ">>, <<"N", "Y">>, <<" ", "N", "Y", " ">> }
BudgetTexts == { <<>>, <<"0">>, <<"-", "5">>, <<"2", "5", "0">> }
AmenitiesTexts == { <<>>, <<",", " ">>, <<"G", ",", " ", "P">> }

SearchForms ==
    [ location : LocationTexts, budget : BudgetTexts,
      bedrooms : {<<>>, <<"3">>}, bathrooms : {<<>>, <<"0">>},
      minSizesqft : {<<>>}, amenitiesInput : AmenitiesTexts ]

\* only the area input of the selected type is rendered and the select
\* clears both, so the area of the other type is empty
PredictionForms ==
    { f \in
      [ propertyType : {"SFH", "Condo"},
        lotArea : {<<>>, <<"0">>, <<"1">>},
        buildingArea : {<<>>, <<"9", "0">>},
        bedrooms : {<<>>, <<"5", "0">>, <<"5", "1">>},
        bathrooms : {<<"2", "0">>, <<"2", "1">>},
        yearBuilt : {<<"1", "7", "9", "9">>, <<"1", "8", "0", "0">>,
                     <<"2", "0", "3", "1">>, <<"2", "0", "3", "2">>},
        hasPool : BOOLEAN, hasGarage : {FALSE},
        schoolRating : {<<"0">>, <<"1", "0">>, <<"1", "1">>} ] :
        /\ f.propertyType = "SFH" => f.buildingArea = <<>>
        /\ f.propertyType = "Condo" => f.lotArea = <<>> }

RecommendationForms ==
    [ userBudget : BudgetTexts,
      userMinBedrooms : {<<>>, <<"0">>, <<"3">>, <<".", "5">>} ]

\* a component whose form fields hold the given texts
WithForm(init, form) == [f \in DOMAIN init |-> IF f \in DOMAIN form THEN form[f] ELSE init[f]]

InitHandlers ==
    /\ route \in {"compare", "search", "prediction", "recommendation"}
    /\ listing = PropertiesInit
    /\ compare \in IF route = "compare"
                   THEN { [CompareInit EXCEPT !.compareId1 = a, !.compareId2 = b]
                            : a \in CompareIdTexts, b \in CompareIdTexts }
                   ELSE {CompareInit}
    /\ search \in IF route = "search"
                  THEN {WithForm(SearchInit, f) : f \in SearchForms} ELSE {SearchInit}
    /\ prediction \in IF route = "prediction"
                      THEN {WithForm(PredictionInit, f) : f \in PredictionForms}
                      ELSE {PredictionInit}
    /\ recommendation \in IF route = "recommendation"
                          THEN {WithForm(RecommendationInit, f) : f \in RecommendationForms}
                          ELSE {RecommendationInit}
    /\ net = <<>>
    /\ rendered = Null

NextHandlers ==
    \/ compareProperties
    \/ compareSettled
    \/ handleSearch
    \/ searchSettled
    \/ handlePredict
    \/ predictSettled
    \/ handleRecommendation
    \/ recommendSettled

SpecHandlers == InitHandlers /\ [][NextHandlers]_vars

---------------------------------------------------------------------------
(* The comparison engine on its own: the component holds a response and    *)
(* renders it.                                                             *)

InitCmp ==
    /\ route = "compare"
    /\ listing = PropertiesInit
    /\ \E r \in ComparisonResponses :
          compare = [CompareInit EXCEPT !.comparisonResult = Some(r)]
    /\ search = SearchInit
    /\ prediction = PredictionInit
    /\ recommendation = RecommendationInit
    /\ net = <<>>
    /\ rendered = Null

Render ==
    /\ rendered = Null
    /\ rendered' = renderComparisonResults(compare.comparisonResult)
    /\ UNCHANGED <<route, listing, compare, search, prediction, recommendation, net>>

NextCmp == Render

SpecCmp == InitCmp /\ [][NextCmp]_vars

---------------------------------------------------------------------------
(* The whole application: the Dashboard mounts one panel at a time, the    *)
(* user edits the fields and clicks the controls that are enabled, and the *)
(* pending calls settle in any order.                                      *)

Panels == {"properties", "compare", "search", "prediction", "recommendation"}

\* the texts an edit may leave in a field
SearchFieldTexts ==
    [ location |-> LocationTexts, budget |-> BudgetTexts,
      bedrooms |-> {<<>>, <<"3">>}, bathrooms |-> {<<>>, <<"0">>},
      minSizesqft |-> {<<>>}, amenitiesInput |-> AmenitiesTexts ]

PredictionFieldTexts ==
    [ lotArea |-> {<<>>, <<"5", "0", "0">>},
      buildingArea |-> {<<>>, <<"9", "0">>},
      bedrooms |-> {<<>>, <<"3">>},
      bathrooms |-> {<<>>, <<"2">>},
      yearBuilt |-> {<<>>, <<"1", "9", "9", "9">>},
      schoolRating |-> {<<>>, <<"7">>} ]

RecommendationFieldTexts ==
    [ userBudget |-> BudgetTexts, userMinBedrooms |-> {<<>>, <<"0">>, <<"3">>} ]

\* the application as the Dashboard first shows it: "/" is Properties, whose
\* effect has called fetchProperties
Init ==
    /\ route = "properties"
    /\ listing = PropertiesInit
    /\ compare = CompareInit
    /\ search = SearchInit
    /\ prediction = PredictionInit
    /\ recommendation = RecommendationInit
    /\ net = <<Request("list", "GET", "http://127.0.0.1:8000/properties", Null)>>
    /\ rendered = Null

\* a sidebar link to another panel: the old component is unmounted (its
\* state is dropped and its pending calls settle without effect), the new
\* one starts from its initial state, and Properties runs its effect
Navigate ==
    \E to \in Panels \ {route} :
        /\ route' = to
        /\ listing' = PropertiesInit
        /\ compare' = CompareInit
        /\ search' = SearchInit
        /\ prediction' = PredictionInit
        /\ recommendation' = RecommendationInit
        /\ net' = IF to = "properties"
                  THEN <<Request("list", "GET", "http://127.0.0.1:8000/properties", Null)>>
                  ELSE <<>>
        /\ rendered' = Null

\* the Refresh button, disabled={loading}
RefreshEnabled == ~listing.loading

RefreshClicked == RefreshEnabled /\ fetchProperties

\* an id button of the table, which is rendered when !loading && !error &&
\* properties.length > 0, disabled={detailsLoading}
PropertyIdEnabled ==
    /\ ~listing.loading /\ listing.error = Null /\ Len(listing.properties) > 0
    /\ ~listing.detailsLoading

PropertyIdClicked ==
    /\ PropertyIdEnabled
    /\ \E row \in 1..Len(listing.properties) : fetchPropertyDetails(listing.properties[row].id)

\* the modal's close button and overlay, rendered when showModal && selectedProperty
ModalClosed == listing.showModal /\ listing.selectedProperty # Null /\ closeModal

\* onChange of the two identifier inputs
CompareEdited ==
    /\ route = "compare"
    /\ \E text \in CompareIdTexts :
          \/ compare' = [compare EXCEPT !.compareId1 = text]
          \/ compare' = [compare EXCEPT !.compareId2 = text]
    /\ rendered' = renderComparisonResults(compare'.comparisonResult)
    /\ UNCHANGED <<route, listing, search, prediction, recommendation, net>>

\* the Compare button, disabled={compareLoading || !compareId1 || !compareId2}
CompareEnabled ==
    ~compare.compareLoading /\ compare.compareId1 # <<>> /\ compare.compareId2 # <<>>

CompareClicked == CompareEnabled /\ compareProperties

\* onChange of the inputs of the search form
SearchEdited ==
    /\ route = "search"
    /\ \E field \in DOMAIN SearchFieldTexts :
          \E text \in SearchFieldTexts[field] : search' = [search EXCEPT ![field] = text]
    /\ UNCHANGED <<route, listing, compare, prediction, recommendation, net, rendered>>

\* the Search button, disabled={loading || !location.trim() || !budget.trim()}
SearchEnabled ==
    ~search.loading /\ Trim(search.location) # <<>> /\ Trim(search.budget) # <<>>

SearchClicked == SearchEnabled /\ handleSearch

\* SearchProperties.resetForm (the Reset Form button is never disabled)
searchResetForm ==
    /\ route = "search"
    /\ search' = [search EXCEPT !.location = <<>>, !.budget = <<>>, !.bedrooms = <<>>,
                                !.bathrooms = <<>>, !.minSizesqft = <<>>,
                                !.amenitiesInput = <<>>, !.searchResults = Null,
                                !.error = Null]
    /\ UNCHANGED <<route, listing, compare, prediction, recommendation, net, rendered>>

\* the area input that is rendered: lotArea for 'SFH', buildingArea otherwise
AreaField(type) == IF type = "SFH" THEN "lotArea" ELSE "buildingArea"

\* the inputs of the prediction form that are rendered
RenderedFields ==
    (DOMAIN PredictionFieldTexts \ {"lotArea", "buildingArea"})
       \cup {AreaField(prediction.propertyType)}

\* onChange of the numeric inputs and of the two checkboxes
PredictionEdited ==
    /\ route = "prediction"
    /\ \/ \E field \in RenderedFields :
             \E text \in PredictionFieldTexts[field] :
                prediction' = [prediction EXCEPT ![field] = text]
       \/ prediction' = [prediction EXCEPT !.hasPool = ~prediction.hasPool]
       \/ prediction' = [prediction EXCEPT !.hasGarage = ~prediction.hasGarage]
    /\ UNCHANGED <<route, listing, compare, search, recommendation, net, rendered>>

\* a plausible slip: the select only sets the type
PropertyTypeChanged_KeepsAreas ==
    /\ route = "prediction"
    /\ \E type \in {"SFH", "Condo"} \ {prediction.propertyType} :
          prediction' = [prediction EXCEPT !.propertyType = type]
    /\ UNCHANGED <<route, listing, compare, search, recommendation, net, rendered>>

\* onChange of the property type select: fired when another option is chosen
PropertyTypeChanged ==
    /\ route = "prediction"
    /\ \E type \in {"SFH", "Condo"} \ {prediction.propertyType} :
          prediction' = [prediction EXCEPT !.propertyType = type, !.lotArea = <<>>,
                                            !.buildingArea = <<>>]
    /\ UNCHANGED <<route, listing, compare, search, recommendation, net, rendered>>

\* the Predict button, disabled={loading}
PredictEnabled == ~prediction.loading

PredictClicked == PredictEnabled /\ handlePredict

\* Prediction.resetForm
predictionResetForm ==
    /\ route = "prediction"
    /\ prediction' = [prediction EXCEPT !.propertyType = "SFH", !.lotArea = <<>>,
                                        !.buildingArea = <<>>, !.bedrooms = <<>>,
                                        !.bathrooms = <<>>, !.yearBuilt = <<>>,
                                        !.hasPool = FALSE, !.hasGarage = FALSE,
                                        !.schoolRating = <<>>, !.predictionResult = Null,
                                        !.error = Null]
    /\ UNCHANGED <<route, listing, compare, search, recommendation, net, rendered>>

\* onChange of the two inputs of the recommendation form
RecommendationEdited ==
    /\ route = "recommendation"
    /\ \E field \in DOMAIN RecommendationFieldTexts :
          \E text \in RecommendationFieldTexts[field] :
             recommendation' = [recommendation EXCEPT ![field] = text]
    /\ UNCHANGED <<route, listing, compare, search, prediction, net, rendered>>

\* the Get Recommendations button,
\* disabled={loading || !userBudget.trim() || !userMinBedrooms.trim()}
RecommendEnabled ==
    /\ ~recommendation.loading
    /\ Trim(recommendation.userBudget) # <<>>
    /\ Trim(recommendation.userMinBedrooms) # <<>>

RecommendClicked == RecommendEnabled /\ handleRecommendation

\* a plausible slip: setError(null) is left out of resetForm
recommendationResetForm_KeepsError ==
    /\ route = "recommendation"
    /\ recommendation' = [recommendation EXCEPT !.userBudget = <<>>,
                                                !.userMinBedrooms = <<>>,
                                                !.recommendationResult = Null]
    /\ UNCHANGED <<route, listing, compare, search, prediction, net, rendered>>

\* Recommendation.resetForm
recommendationResetForm ==
    /\ route = "recommendation"
    /\ recommendation' = [recommendation EXCEPT !.userBudget = <<>>,
                                                !.userMinBedrooms = <<>>,
                                                !.recommendationResult = Null,
                                                !.error = Null]
    /\ UNCHANGED <<route, listing, compare, search, prediction, net, rendered>>

Next ==
    \/ Navigate
    \/ RefreshClicked
    \/ propertiesSettled
    \/ PropertyIdClicked
    \/ detailsSettled
    \/ ModalClosed
    \/ CompareEdited
    \/ CompareClicked
    \/ compareSettled
    \/ SearchEdited
    \/ SearchClicked
    \/ searchSettled
    \/ searchResetForm
    \/ PredictionEdited
    \/ PropertyTypeChanged
    \/ PredictClicked
    \/ predictSettled
    \/ predictionResetForm
    \/ RecommendationEdited
    \/ RecommendClicked
    \/ recommendSettled
    \/ recommendationResetForm

Spec == Init /\ [][Next]_vars

---------------------------------------------------------------------------
(* Properties of the comparison engine (checked under SpecCmp)             *)

Result == compare.comparisonResult[1]
View == rendered[1]
IsRendered == rendered # Null

\* the nine attributes of the verdict tally and their declared polarity
Attrs == { "price", "size", "bedrooms", "bathrooms", "school", "commute",
           "year", "value", "amenities" }
HigherIsBetterAttrs == {"size", "bedrooms", "bathrooms", "school", "year", "amenities"}
LowerIsBetterAttrs == {"price", "commute", "value"}

\* the number a record holds for an attribute
AttrValue(p, a) ==
    CASE a = "price"     -> Num(p.price)
      [] a = "size"      -> Num(p.size_sqft)
      [] a = "bedrooms"  -> Num(p.bedrooms)
      [] a = "bathrooms" -> Num(p.bathrooms)
      [] a = "school"    -> Num(p.school_rating)
      [] a = "commute"   -> Num(p.commute_time)
      [] a = "year"      -> Num(p.year_built)
      [] a = "value"     -> Div(p.price, p.size_sqft)
      [] a = "amenities" -> Num(Len(p.amenities))

\* the verdict the rendered comparison gives an attribute
ShownVerdict(a) ==
    IF a = "amenities" THEN View.overall.allComparisons[9] ELSE View.analysis[a]

\* two numbers are numerically equal (NaN is equal to nothing)
NumericallyEqual(x, y) ==
    /\ x.k # "nan" /\ y.k # "nan"
    /\ IF x.k = "fin" /\ y.k = "fin" THEN x.n * y.d = y.n * x.d ELSE x.k = y.k

EqualOn(a) == NumericallyEqual(AttrValue(Result.property1, a), AttrValue(Result.property2, a))

\* which side the polarity of an attribute favours, for unequal values
FirstFavoured(a) ==
    IF a \in HigherIsBetterAttrs
    THEN GreaterThan(AttrValue(Result.property1, a), AttrValue(Result.property2, a))
    ELSE LessThan(AttrValue(Result.property1, a), AttrValue(Result.property2, a))

WonByFirst == {a \in Attrs : ShownVerdict(a) = Property1Wins}
WonBySecond == {a \in Attrs : ShownVerdict(a) = Property2Wins}
Tied == {a \in Attrs : ShownVerdict(a) = Tie}

\* C1: getComparison returns Tie for every pair of numerically equal values,
\* under either polarity, and never returns Tie for a pair of unequal values.
C1_TieIffEqual ==
    IsRendered => \A a \in Attrs : (ShownVerdict(a) = Tie) <=> EqualOn(a)

\* C1 witness: a rendered comparison with a tie on a lower-is-better
\* attribute, a tie on a higher-is-better one and a non-tie on unequal values.
C1_Witness ==
    /\ IsRendered
    /\ EqualOn("price") /\ ShownVerdict("price") = Tie
    /\ EqualOn("bedrooms") /\ ShownVerdict("bedrooms") = Tie
    /\ ~EqualOn("size") /\ ShownVerdict("size") # Tie

\* C2: for unequal values the verdict favours property 1 when its value is
\* greater on a higher-is-better attribute or smaller on a lower-is-better
\* one, and property 2 otherwise; size, bedrooms, bathrooms, school rating,
\* year built and amenity count are higher-is-better, price, commute time
\* and price per square foot are lower-is-better.
C2_PolarityDecides ==
    IsRendered =>
        \A a \in Attrs :
            ~EqualOn(a) =>
                ShownVerdict(a) = IF FirstFavoured(a) THEN Property1Wins ELSE Property2Wins

\* C2 witness: property 1 wins a lower-is-better attribute with the smaller
\* value and loses a higher-is-better attribute with the smaller value.
C2_Witness ==
    /\ IsRendered
    /\ Result.property1.commute_time < Result.property2.commute_time
    /\ ShownVerdict("commute") = Property1Wins
    /\ Result.property1.year_built < Result.property2.year_built
    /\ ShownVerdict("year") = Property2Wins
    /\ Len(Result.property1.amenities) > Len(Result.property2.amenities)
    /\ ShownVerdict("amenities") = Property1Wins

\* C3: the aggregate verdict is a tie whenever the two sides won the same
\* number of attributes, whatever the number of tied attributes.
C3_EqualWinsTie ==
    (IsRendered /\ Cardinality(WonByFirst) = Cardinality(WonBySecond)) =>
        /\ View.overall.winnerClass = "overall-tie"
        /\ View.overall.overallWinner = <<"It's a Tie!">>

\* C3 witness: four wins each and one tie.
C3_Witness ==
    /\ IsRendered
    /\ Cardinality(WonByFirst) = 4 /\ Cardinality(WonBySecond) = 4
    /\ View.overall.winnerClass = "overall-tie"

\* C4: property 1 is named overall winner exactly when it won more
\* attributes than property 2, property 2 exactly when it won more than
\* property 1, and the winner named is the side with more wins.
C4_MajorityWins ==
    IsRendered =>
        /\ (View.overall.winnerClass = "overall-winner-1")
              <=> (Cardinality(WonByFirst) > Cardinality(WonBySecond))
        /\ (View.overall.winnerClass = "overall-winner-2")
              <=> (Cardinality(WonBySecond) > Cardinality(WonByFirst))
        /\ (View.overall.overallWinner = <<"Property", Result.property1.id>>)
              <=> (Cardinality(WonByFirst) > Cardinality(WonBySecond))
        /\ (View.overall.overallWinner = <<"Property", Result.property2.id>>)
              <=> (Cardinality(WonBySecond) > Cardinality(WonByFirst))

\* C4 witness: property 2 is named with five wins against four.
C4_Witness ==
    /\ IsRendered
    /\ Cardinality(WonBySecond) = 5 /\ Cardinality(WonByFirst) = 4
    /\ View.overall.overallWinner = <<"Property", Result.property2.id>>

\* a record with the fields that are shown without a winner set to fixed values
WithoutDisplayFields(p) ==
    [p EXCEPT !.title = "", !.location = "", !.has_garage = FALSE,
              !.has_garden = FALSE, !.has_pool = FALSE]

OverallOf(p1, p2) ==
    renderOverallWinner(getAnalysis(p1, p2), [property1 |-> p1, property2 |-> p2])

\* C5: the tally is taken over exactly the nine attributes; title, location
\* and the garage/garden/pool flags change none of the three counters nor
\* the aggregate verdict.
C5_NineTallied ==
    IsRendered =>
        /\ Len(View.overall.allComparisons) = 9
        /\ View.overall.property1Wins = Cardinality({a \in Attrs : ~EqualOn(a) /\ FirstFavoured(a)})
        /\ View.overall.property2Wins = Cardinality({a \in Attrs : ~EqualOn(a) /\ ~FirstFavoured(a)})
        /\ View.overall.ties = Cardinality({a \in Attrs : EqualOn(a)})
        /\ LET bare == OverallOf(WithoutDisplayFields(Result.property1),
                                 WithoutDisplayFields(Result.property2))
           IN  /\ bare.property1Wins = View.overall.property1Wins
               /\ bare.property2Wins = View.overall.property2Wins
               /\ bare.ties = View.overall.ties
               /\ bare.winnerClass = View.overall.winnerClass

\* C5 witness: a rendered comparison of two records that differ in all three
\* flags, in title and in location.
C5_Witness ==
    /\ IsRendered
    /\ Result.property1.has_garage # Result.property2.has_garage
    /\ Result.property1.has_garden # Result.property2.has_garden
    /\ Result.property1.has_pool # Result.property2.has_pool
    /\ Result.property1.title # Result.property2.title
    /\ Result.property1.location # Result.property2.location
    /\ View.overall.ties > 0 /\ View.overall.property1Wins > 0

\* C6: every tallied attribute is counted in exactly one of the three
\* counts, which sum to nine, and an attribute with equal values adds one to
\* the ties and nothing to either win count.
C6_CountsPartition ==
    IsRendered =>
        /\ View.overall.property1Wins + View.overall.property2Wins + View.overall.ties = 9
        /\ View.overall.property1Wins = Cardinality(WonByFirst)
        /\ View.overall.property2Wins = Cardinality(WonBySecond)
        /\ View.overall.ties = Cardinality(Tied)
        /\ \A a \in Attrs : EqualOn(a) => a \in Tied /\ a \notin WonByFirst \cup WonBySecond

\* C6 witness: 3 against 3 bedrooms, tied and counted among the ties only.
C6_Witness ==
    /\ IsRendered
    /\ Result.property1.bedrooms = 3 /\ Result.property2.bedrooms = 3
    /\ ShownVerdict("bedrooms") = Tie
    /\ View.overall.ties = 1
    /\ View.overall.property1Wins = 5 /\ View.overall.property2Wins = 3

SizeIsZero == Result.property1.size_sqft = 0 \/ Result.property2.size_sqft = 0

\* C7: when either size_sqft is zero the price-per-square-foot comparison is
\* skipped: no quotient by zero is formed, no infinite or not-a-number value
\* is compared, and the metric is in none of the three counters (the other
\* eight attributes are still tallied).
C7_ZeroSizeSkipped ==
    (IsRendered /\ SizeIsZero) =>
        /\ IsFinite(View.pricePerSqft[1]) /\ IsFinite(View.pricePerSqft[2])
        /\ View.overall.property1Wins + View.overall.property2Wins + View.overall.ties = 8

\* C8: for price 300000 / size 1500 against price 320000 / size 1400 the
\* price-per-square-foot verdict is property 1; in general, with both sizes
\* positive, the verdict favours the side with the lower price / size.
C8_LowerRatioWins ==
    IsRendered =>
        LET p1 == Result.property1
            p2 == Result.property2
        IN  /\ (p1.price = 300000 /\ p1.size_sqft = 1500 /\ p2.price = 320000 /\ p2.size_sqft = 1400)
                  => ShownVerdict("value") = Property1Wins
            /\ (p1.size_sqft > 0 /\ p2.size_sqft > 0) =>
                  /\ (p1.price * p2.size_sqft < p2.price * p1.size_sqft)
                        => ShownVerdict("value") = Property1Wins
                  /\ (p1.price * p2.size_sqft > p2.price * p1.size_sqft)
                        => ShownVerdict("value") = Property2Wins
                  /\ (p1.price * p2.size_sqft = p2.price * p1.size_sqft)
                        => ShownVerdict("value") = Tie

\* C8 witness: the example of the specification, rendered.
C8_Witness ==
    /\ IsRendered
    /\ Result.property1.price = 300000 /\ Result.property1.size_sqft = 1500
    /\ Result.property2.price = 320000 /\ Result.property2.size_sqft = 1400
    /\ View.pricePerSqft[1] = [k |-> "fin", n |-> 300000, d |-> 1500]
    /\ ShownVerdict("value") = Property1Wins



---------------------------------------------------------------------------
(* Properties of the submit handlers (checked under SpecHandlers)          *)

\* the text is non-blank and holds a number in lo..hi (hi < 0: no upper limit)
TextInRange(text, lo, hi) ==
    LET x == Number(text)
    IN  /\ Trim(text) # <<>>
        /\ x.k = "fin"
        /\ lo * x.d <= x.n
        /\ hi < 0 \/ x.n <= hi * x.d

\* the validation rules of the four panels, on the current fields
CompareInputsPass ==
    /\ compare.compareId1 # <<>> /\ compare.compareId2 # <<>>
    /\ compare.compareId1 # compare.compareId2
    /\ parseInt(compare.compareId1).k = "fin" /\ parseInt(compare.compareId2).k = "fin"

SearchInputsPass ==
    /\ Trim(search.location) # <<>>
    /\ Trim(search.budget) # <<>>
    /\ ~LessOrEqual(Number(search.budget), Num(0))

PredictionInputsPass ==
    /\ prediction.propertyType = "SFH" => TextInRange(prediction.lotArea, 1, -1)
    /\ prediction.propertyType = "Condo" => TextInRange(prediction.buildingArea, 1, -1)
    /\ TextInRange(prediction.bedrooms, 0, 50)
    /\ TextInRange(prediction.bathrooms, 0, 20)
    /\ TextInRange(prediction.yearBuilt, 1800, CurrentYear + 5)
    /\ TextInRange(prediction.schoolRating, 1, 10)

RecommendationInputsPass ==
    /\ TextInRange(recommendation.userBudget, 0, -1)
    /\ Number(recommendation.userBudget).n > 0
    /\ TextInRange(recommendation.userMinBedrooms, 1, -1)

InputsPass(call) ==
    CASE call = "compare"   -> CompareInputsPass
      [] call = "search"    -> SearchInputsPass
      [] call = "predict"   -> PredictionInputsPass
      [] call = "recommend" -> RecommendationInputsPass

HasMessage(error) == error # Null /\ error[1] # ""

\* C9: in the compare, search, prediction and recommendation panels a submit
\* whose input fails validation sets a non-empty error message and issues no
\* request, and a request is issued only from a state whose inputs pass
\* every validation rule of the panel.
C9_InvalidSubmitSendsNothing ==
    [][ /\ (compareProperties /\ ~CompareInputsPass)
              => (HasMessage(compare'.error) /\ net' = net)
        /\ (handleSearch /\ ~SearchInputsPass)
              => (HasMessage(search'.error) /\ net' = net)
        /\ (handlePredict /\ ~PredictionInputsPass)
              => (HasMessage(prediction'.error) /\ net' = net)
        /\ (handleRecommendation /\ ~RecommendationInputsPass)
              => (HasMessage(recommendation'.error) /\ net' = net)
        /\ (Len(net') > Len(net)) => InputsPass(net'[Len(net')].call) ]_vars

\* C9 witness: the recommendation panel after a submit with budget "-5":
\* the validation message is shown and nothing was sent.
C9_Witness ==
    /\ route = "recommendation"
    /\ recommendation.userBudget = <<"-", "5">>
    /\ recommendation.userMinBedrooms = <<"3">>
    /\ ~RecommendationInputsPass
    /\ recommendation.error = Some("Please enter a valid budget (greater than 0)")
    /\ ~recommendation.loading
    /\ net = <<>>

\* C10: a search submitted with an empty or whitespace-only location sets
\* the error to exactly "Location is required" and issues no network call,
\* whatever the budget and the preference fields hold.
C10_EmptyLocationRejected ==
    [][ /\ (handleSearch /\ Trim(search.location) = <<>>)
              => /\ search'.error = Some("Location is required")
                 /\ net' = net
                 /\ search'.loading = search.loading
        /\ (Len(net') > Len(net) /\ route = "search") => Trim(search.location) # <<>> ]_vars

\* C10 witness: a whitespace-only location with a valid budget and
\* preferences, rejected with the message and nothing sent.
C10_Witness ==
    /\ route = "search"
    /\ search.location = <<" ">>
    /\ search.budget = <<"2", "5", "0">>
    /\ search.bedrooms = <<"3">>
    /\ search.amenitiesInput = <<"G", ",", " ", "P">>
    /\ search.error = Some("Location is required")
    /\ ~search.loading
    /\ net = <<>>

---------------------------------------------------------------------------
(* Properties of the application (checked under Spec)                      *)

\* the pending requests of a call
Requests(call) == {net[i] : i \in Pending(call)}

\* C11: a compare with id1 == id2 is rejected before any network call: no
\* /comparebyid request is ever pending whose body has id1 equal to id2,
\* whatever the two identifier fields held, texts that differ but parse to
\* the same integer included.
C11_EqualIdsNeverSent ==
    \A r \in Requests("compare") : ~StrictEq(r.body.id1, r.body.id2)

\* C12: on the compare panel a response that is not ok with status 404 sets
\* the error to exactly "Property ID not found", one with any other status
\* sets it to "HTTP error! status: " followed by that status (500 gives
\* "HTTP error! status: 500"), and neither stores a comparison result.
C12_CompareStatusMessages ==
    [][ \A i \in Pending("compare"), o \in Outcomes(CompareBodies) :
          (compareSettledWith(i, o) /\ o.kind = "status")
             => /\ o.status = 404 => compare'.error = Some("Property ID not found")
                /\ o.status = 500 => compare'.error = Some("HTTP error! status: 500")
                /\ o.status # 404
                      => compare'.error = Some("HTTP error! status: " \o ToString(o.status))
                /\ compare'.comparisonResult = compare.comparisonResult ]_vars

\* C12 witness: the compare panel after a 404 response to a first compare:
\* the message is shown, nothing is stored and the panel is idle.
C12_Witness ==
    /\ route = "compare"
    /\ compare.error = Some("Property ID not found")
    /\ compare.comparisonResult = Null
    /\ ~compare.compareLoading
    /\ net = <<>>

\* the six calls, and for each its settlement step, the 2xx bodies it may
\* receive and the error its panel holds after the step
Calls == {"list", "detail", "compare", "search", "predict", "recommend"}

SettledWith(call, i, o) ==
    CASE call = "list"      -> propertiesSettledWith(i, o)
      [] call = "detail"    -> detailsSettledWith(i, o)
      [] call = "compare"   -> compareSettledWith(i, o)
      [] call = "search"    -> searchSettledWith(i, o)
      [] call = "predict"   -> predictSettledWith(i, o)
      [] call = "recommend" -> recommendSettledWith(i, o)

BodiesOf(call) ==
    CASE call = "list"      -> ListBodies
      [] call = "detail"    -> DetailBodies
      [] call = "compare"   -> CompareBodies
      [] call = "search"    -> SearchBodies
      [] call = "predict"   -> PredictionBodies
      [] call = "recommend" -> RecommendationBodies

ErrorAfter(call) ==
    CASE call \in {"list", "detail"} -> listing'.error
      [] call = "compare"            -> compare'.error
      [] call = "search"             -> search'.error
      [] call = "predict"            -> prediction'.error
      [] call = "recommend"          -> recommendation'.error

\* the generic message of a call for a status: the status-coded text, which
\* the list panel prefixes with the name of the call that failed
GenericMessage(call, status) ==
    (CASE call = "list"   -> "Failed to fetch properties: "
       [] call = "detail" -> "Failed to fetch details: "
       [] OTHER           -> "") \o "HTTP error! status: " \o ToString(status)

\* a settlement step of the call with a response that is not ok
StatusStep(call, i, o) == SettledWith(call, i, o) /\ o.kind = "status"

\* C13 as stated: in every panel a response that is not ok and whose status
\* is not 404 yields the generic status-coded message; no other status has
\* a message of its own.
C13_OnlyNotFoundSpecial ==
    [][ \A call \in Calls : \A i \in Pending(call), o \in Outcomes(BodiesOf(call)) :
          (StatusStep(call, i, o) /\ o.status # 404)
             => ErrorAfter(call) = Some(GenericMessage(call, o.status)) ]_vars

\* the message a form panel gives status 400
BadRequestMessage(call) ==
    CASE call = "search"    -> "Invalid search parameters"
      [] call = "predict"   -> "Invalid request data"
      [] call = "recommend" -> "No properties found for your criteria"

\* C13 amended: a response that is not ok and whose status is neither 404
\* nor 400 yields the generic status-coded message in every panel; status
\* 400 yields it in the list, detail and compare calls, and a message of
\* its own in the search, prediction and recommendation panels.
C13_BadRequestSpecialInForms ==
    [][ \A call \in Calls : \A i \in Pending(call), o \in Outcomes(BodiesOf(call)) :
          StatusStep(call, i, o)
             => /\ o.status \notin {400, 404}
                      => ErrorAfter(call) = Some(GenericMessage(call, o.status))
                /\ (o.status = 400 /\ call \in {"list", "detail", "compare"})
                      => ErrorAfter(call) = Some(GenericMessage(call, 400))
                /\ (o.status = 400 /\ call \in {"search", "predict", "recommend"})
                      => ErrorAfter(call) = Some(BadRequestMessage(call)) ]_vars

\* C13 witness: the search panel after a 400 response: its own message is
\* shown and the panel is idle.
C13_Witness ==
    /\ route = "search"
    /\ search.error = Some("Invalid search parameters")
    /\ search.searchResults = Null
    /\ ~search.loading
    /\ net = <<>>

\* C14 as stated: only the compare panel gives status 404 a message of its
\* own; in the list, detail, search, prediction and recommendation calls a
\* 404 response yields the generic status-coded message.
C14_OnlyCompareSpecial404 ==
    [][ \A call \in Calls \ {"compare"} :
          \A i \in Pending(call), o \in Outcomes(BodiesOf(call)) :
             (StatusStep(call, i, o) /\ o.status = 404)
                => ErrorAfter(call) = Some(GenericMessage(call, 404)) ]_vars

\* C14 amended: the compare and the recommendation panels give status 404 a
\* message of their own ("Property ID not found", "No properties found for
\* your criteria"); in the list, detail, search and prediction calls a 404
\* response yields the generic status-coded message.
C14_CompareAndRecommendSpecial404 ==
    [][ \A call \in Calls : \A i \in Pending(call), o \in Outcomes(BodiesOf(call)) :
          (StatusStep(call, i, o) /\ o.status = 404)
             => ErrorAfter(call) =
                   Some(CASE call = "compare"   -> "Property ID not found"
                          [] call = "recommend" -> "No properties found for your criteria"
                          [] OTHER              -> GenericMessage(call, 404)) ]_vars

\* C14 witness: the prediction panel after a 404 response: the generic
\* message with the status is shown and the panel is idle.
C14_Witness ==
    /\ route = "prediction"
    /\ prediction.error = Some("HTTP error! status: 404")
    /\ prediction.predictionResult = Null
    /\ ~prediction.loading
    /\ net = <<>>

\* the panel of a call, the busy flag of the call in the mounted panel,
\* whether its trigger control is rendered and enabled, and what the trigger needs besides an idle, error-free panel
PanelOf(call) ==
    CASE call \in {"list", "detail"} -> "properties"
      [] call = "compare"            -> "compare"
      [] call = "search"             -> "search"
      [] call = "predict"            -> "prediction"
      [] call = "recommend"          -> "recommendation"

Busy(call) ==
    /\ route = PanelOf(call)
    /\ CASE call = "list"      -> listing.loading
         [] call = "detail"    -> listing.detailsLoading
         [] call = "compare"   -> compare.compareLoading
         [] call = "search"    -> search.loading
         [] call = "predict"   -> prediction.loading
         [] call = "recommend" -> recommendation.loading

TriggerEnabled(call) ==
    CASE call = "list"      -> RefreshEnabled
      [] call = "detail"    -> PropertyIdEnabled
      [] call = "compare"   -> CompareEnabled
      [] call = "search"    -> SearchEnabled
      [] call = "predict"   -> PredictEnabled
      [] call = "recommend" -> RecommendEnabled

InputsAllow(call) ==
    CASE call = "list"      -> TRUE
      [] call = "detail"    -> ~listing.loading /\ Len(listing.properties) > 0
      [] call = "compare"   -> compare.compareId1 # <<>> /\ compare.compareId2 # <<>>
      [] call = "search"    -> Trim(search.location) # <<>> /\ Trim(search.budget) # <<>>
      [] call = "predict"   -> TRUE
      [] call = "recommend" -> /\ Trim(recommendation.userBudget) # <<>>
                               /\ Trim(recommendation.userMinBedrooms) # <<>>

\* a settlement step of the call that is a failure: a response that is not
\* ok, a rejected fetch, or a body that does not parse
FailureStep(call, i, o) == SettledWith(call, i, o) /\ o.kind # "ok"

\* C15: every failure of each of the six calls is caught in its panel and
\* stored as one non-empty error string, and after it the call's trigger is
\* enabled again (for the inputs the panel holds), so the action can be
\* retried.
C15_FailureCaughtAndRetryable ==
    [][ \A call \in Calls : \A i \in Pending(call), o \in Outcomes(BodiesOf(call)) :
          FailureStep(call, i, o)
             => /\ HasMessage(ErrorAfter(call))
                /\ ~Busy(call)'
                /\ InputsAllow(call)' => TriggerEnabled(call)' ]_vars

\* the same for the five calls other than the detail fetch
FailureCaughtAndRetryableButDetail ==
    [][ \A call \in Calls \ {"detail"} :
          \A i \in Pending(call), o \in Outcomes(BodiesOf(call)) :
             FailureStep(call, i, o)
                => /\ HasMessage(ErrorAfter(call))
                   /\ ~Busy(call)'
                   /\ InputsAllow(call)' => TriggerEnabled(call)' ]_vars

---------------------------------------------------------------------------
(* The application when every pending call settles                         *)

\* a pending request of the call leaves the network
CallSettles(call) == \E i \in Pending(call) : net' = RemoveAt(net, i)

\* every outstanding call eventually settles
SettlesEventually == \A call \in Calls : WF_net(CallSettles(call))

SpecSettles == Init /\ [][Next]_vars /\ SettlesEventually

\* a request of the call has been initiated and has not settled
Outstanding(call) == Pending(call) # {}

\* C16: for every call the busy flag of its panel is set exactly while a
\* request of the call is outstanding: set in the step that initiates the
\* request, kept until the call settles, cleared by the settlement step on
\* every exit path (a parsed 2xx body, a status that is not ok, a rejected
\* fetch, an unparsable body); and when every outstanding call eventually
\* settles, a busy panel is eventually idle again.
C16_BusyWhileOutstanding ==
    /\ [](\A call \in Calls : Busy(call) <=> Outstanding(call))
    /\ [][ \A call \in Calls : \A i \in Pending(call), o \in Outcomes(BodiesOf(call)) :
             SettledWith(call, i, o) => ~Busy(call)' ]_vars
    /\ \A call \in Calls : Busy(call) ~> ~Busy(call)

\* C16 witness: the search panel busy with its request outstanding.
C16_Witness ==
    /\ route = "search"
    /\ search.loading
    /\ Len(net) = 1 /\ net[1].call = "search"
    /\ search.error = Null

---------------------------------------------------------------------------
(* Properties of the application, continued (checked under Spec)           *)

\* the pending requests a panel has issued
InFlight(panel) == {i \in 1..Len(net) : PanelOf(net[i].call) = panel}

\* C17: under every interleaving of user actions and settlements, no panel
\* has two requests outstanding at once, the list panel with its refresh
\* and its detail fetch included.
C17_OneInFlightPerPanel ==
    \A panel \in Panels : Cardinality(InFlight(panel)) <= 1

\* each call on its own has at most one request outstanding, and so has
\* each panel other than the list panel
OneInFlightPerCall ==
    /\ \A call \in Calls : Cardinality(Pending(call)) <= 1
    /\ \A panel \in Panels \ {"properties"} : Cardinality(InFlight(panel)) <= 1

\* the fields of a panel other than its busy flags: the form fields, the
\* stored result and the error
Resettable(init) == DOMAIN init \ {"loading", "compareLoading", "detailsLoading"}

\* the panel state has every form field, the result and the error at their
\* initial values
AtInitial(state, init) == \A f \in Resettable(init) : state[f] = init[f]

\* C18: in the search, prediction and recommendation panels resetForm, from
\* any state (one with a populated result included), leaves every form
\* field at its initial value (texts empty, property type "SFH", pool and
\* garage flags false), the stored result null and the error null.
C18_ResetFormClears ==
    [][ /\ searchResetForm
             => /\ AtInitial(search', SearchInit)
                /\ search'.location = <<>> /\ search'.budget = <<>>
                /\ search'.searchResults = Null /\ search'.error = Null
        /\ predictionResetForm
             => /\ AtInitial(prediction', PredictionInit)
                /\ prediction'.propertyType = "SFH"
                /\ ~prediction'.hasPool /\ ~prediction'.hasGarage
                /\ prediction'.predictionResult = Null /\ prediction'.error = Null
        /\ recommendationResetForm
             => /\ AtInitial(recommendation', RecommendationInit)
                /\ recommendation'.userBudget = <<>>
                /\ recommendation'.recommendationResult = Null
                /\ recommendation'.error = Null ]_vars

\* C18 witness: the prediction panel reset while a submitted prediction is
\* still pending: the request was built from filled fields, and the fields,
\* the result and the error are now at their initial values.
C18_Witness ==
    /\ route = "prediction"
    /\ Len(net) = 1 /\ net[1].call = "predict"
    /\ net[1].body.has_pool
    /\ AtInitial(prediction, PredictionInit)
    /\ prediction.loading

\* one user action in the mounted panel (a click or an edit; the panel stays
\* mounted) after which its form fields, result and error are the initial ones
ResetsList ==
    (RefreshClicked \/ PropertyIdClicked \/ ModalClosed)
       /\ AtInitial(listing', PropertiesInit)
ResetsCompare ==
    (CompareEdited \/ CompareClicked) /\ AtInitial(compare', CompareInit)
ResetsSearch ==
    (SearchEdited \/ SearchClicked \/ searchResetForm) /\ AtInitial(search', SearchInit)
ResetsPrediction ==
    (PredictionEdited \/ PropertyTypeChanged \/ PredictClicked \/ predictionResetForm)
       /\ AtInitial(prediction', PredictionInit)
ResetsRecommendation ==
    (RecommendationEdited \/ RecommendClicked \/ recommendationResetForm)
       /\ AtInitial(recommendation', RecommendationInit)

\* C19: each of the five panels offers a reset: in every reachable state
\* the mounted panel either has its form fields, result and error at their
\* initial values already or has a single user action that puts them there.
C19_EveryPanelCanReset ==
    /\ route = "properties"
          => AtInitial(listing, PropertiesInit) \/ ENABLED ResetsList
    /\ route = "compare"
          => AtInitial(compare, CompareInit) \/ ENABLED ResetsCompare
    /\ route = "search"
          => AtInitial(search, SearchInit) \/ ENABLED ResetsSearch
    /\ route = "prediction"
          => AtInitial(prediction, PredictionInit) \/ ENABLED ResetsPrediction
    /\ route = "recommendation"
          => AtInitial(recommendation, RecommendationInit) \/ ENABLED ResetsRecommendation

\* the three form panels do offer it
FormPanelsCanReset ==
    /\ route = "search"
          => AtInitial(search, SearchInit) \/ ENABLED ResetsSearch
    /\ route = "prediction"
          => AtInitial(prediction, PredictionInit) \/ ENABLED ResetsPrediction
    /\ route = "recommendation"
          => AtInitial(recommendation, RecommendationInit) \/ ENABLED ResetsRecommendation

\* the compare panel holding a result has no action that clears it
CompareCannotReset ==
    (route = "compare" /\ compare.comparisonResult # Null) => ~ENABLED ResetsCompare

\* C20: in the compare, search, prediction and recommendation panels a
\* displayed error never comes with a stored result: whenever the error is
\* non-null the result is null (a submit that fails validation, or a call
\* that fails, clears the result of an earlier successful call).
C20_NoResultWithError ==
    /\ compare.error # Null => compare.comparisonResult = Null
    /\ search.error # Null => search.searchResults = Null
    /\ prediction.error # Null => prediction.predictionResult = Null
    /\ recommendation.error # Null => recommendation.recommendationResult = Null

\* C20 amended: the four panels all retain the stored result: a step that
\* sets the error (a submit that fails validation, a call that fails)
\* leaves the result of an earlier successful call as it was, so that a
\* panel may hold an error together with an earlier result.
C20_ErrorKeepsResult ==
    [][ /\ (compare'.error # Null /\ compare'.error # compare.error)
              => compare'.comparisonResult = compare.comparisonResult
        /\ (search'.error # Null /\ search'.error # search.error)
              => search'.searchResults = search.searchResults
        /\ (prediction'.error # Null /\ prediction'.error # prediction.error)
              => prediction'.predictionResult = prediction.predictionResult
        /\ (recommendation'.error # Null /\ recommendation'.error # recommendation.error)
              => recommendation'.recommendationResult = recommendation.recommendationResult
      ]_vars

\* C20 witness: the compare panel showing an earlier comparison together
\* with the error of a later submit that failed validation.
C20_Witness ==
    /\ route = "compare"
    /\ compare.error = Some("Please enter different property IDs")
    /\ compare.comparisonResult # Null
    /\ rendered # Null
    /\ ~compare.compareLoading

\* C21: every request the client issues, for each of the six calls, declares
\* the header Content-Type: application/json.
C21_JsonContentType ==
    \A i \in 1..Len(net) : <<"Content-Type", "application/json">> \in net[i].headers

\* the five calls other than the detail fetch do declare it
JsonContentTypeButDetail ==
    \A i \in 1..Len(net) :
        net[i].call # "detail" => <<"Content-Type", "application/json">> \in net[i].headers

\* the click that triggers a call, and whether the inputs of the call pass
\* the panel's validation (the list and detail fetches take no input)
Trigger(call) ==
    CASE call = "list"      -> RefreshClicked
      [] call = "detail"    -> PropertyIdClicked
      [] call = "compare"   -> CompareClicked
      [] call = "search"    -> SearchClicked
      [] call = "predict"   -> PredictClicked
      [] call = "recommend" -> RecommendClicked

Passes(call) == IF call \in {"list", "detail"} THEN TRUE ELSE InputsPass(call)

\* the request goes to the endpoint declared for its call, with the declared
\* method and body shape
Declared(r) ==
    CASE r.call = "list" ->
           /\ r.method = "GET" /\ r.url = "http://127.0.0.1:8000" \o "/properties"
           /\ r.body = Null
      [] r.call = "detail" ->
           /\ r.method = "GET" /\ r.body = Null
           /\ \E id \in {1, 2} :
                 r.url = "http://127.0.0.1:8000" \o "/properties/" \o ToString(id)
      [] r.call = "compare" ->
           /\ r.method = "POST" /\ r.url = "http://127.0.0.1:8000" \o "/comparebyid"
           /\ DOMAIN r.body = {"id1", "id2"}
      [] r.call = "search" ->
           /\ r.method = "POST" /\ r.url = "http://127.0.0.1:8000" \o "/findproperties"
           /\ DOMAIN r.body = {"location", "budget", "preferences"}
      [] r.call = "predict" ->
           /\ r.method = "POST"
           /\ r.url = "https://agentmira-backend.onrender.com" \o "/predict"
           /\ r.body.property_type \in {"SFH", "Condo"}
      [] r.call = "recommend" ->
           /\ r.method = "POST" /\ r.url = "http://127.0.0.1:8000" \o "/recommend"
           /\ DOMAIN r.body = {"user_budget", "user_min_bedrooms"}

\* the step issues exactly one request, of the call, as declared
IssuesOne(call) ==
    /\ Len(net') = Len(net) + 1
    /\ net' = Append(net, net'[Len(net')])
    /\ net'[Len(net')].call = call
    /\ Declared(net'[Len(net')])

---------------------------------------------------------------------------
(* Properties of the submit handlers, continued (checked under SpecHandlers) *)

\* the rules of the prediction form in the order they are applied, each with
\* its field, its inclusive range (hi < 0: no upper limit) and its message
PredictionRules ==
    << [ applies |-> prediction.propertyType = "SFH", text |-> prediction.lotArea,
         lo |-> 1, hi |-> -1,
         message |-> "Please enter a valid lot area (greater than 0)" ],
       [ applies |-> prediction.propertyType = "Condo", text |-> prediction.buildingArea,
         lo |-> 1, hi |-> -1,
         message |-> "Please enter a valid building area (greater than 0)" ],
       [ applies |-> TRUE, text |-> prediction.bedrooms, lo |-> 0, hi |-> 50,
         message |-> "Please enter valid bedrooms (0-50)" ],
       [ applies |-> TRUE, text |-> prediction.bathrooms, lo |-> 0, hi |-> 20,
         message |-> "Please enter valid bathrooms (0-20)" ],
       [ applies |-> TRUE, text |-> prediction.yearBuilt, lo |-> 1800,
         hi |-> CurrentYear + 5,
         message |-> "Please enter valid year built (1800-2031)" ],
       [ applies |-> TRUE, text |-> prediction.schoolRating, lo |-> 1, hi |-> 10,
         message |-> "Please enter valid school rating (1-10)" ] >>

RuleFails(rule) == rule.applies /\ ~TextInRange(rule.text, rule.lo, rule.hi)

FailingRules == {n \in 1..Len(PredictionRules) : RuleFails(PredictionRules[n])}

FirstFailingRule == CHOOSE n \in FailingRules : \A m \in FailingRules : n <= m

\* C23: handlePredict issues a request only when every numeric field is
\* non-blank, numeric and inside its inclusive range (bedrooms 0..50,
\* bathrooms 0..20, year built 1800..current year + 5, school rating 1..10,
\* the area of the property type at least 1); otherwise it issues nothing
\* and the error is the message of the first failing rule in the order area,
\* bedrooms, bathrooms, year built, school rating.
C23_PredictionValidation ==
    [][ handlePredict
           => IF FailingRules = {}
              THEN /\ Len(net') = Len(net) + 1
                   /\ net'[Len(net')].call = "predict"
                   /\ prediction'.error = Null
              ELSE /\ net' = net
                   /\ prediction'.error = Some(PredictionRules[FirstFailingRule].message)
                   /\ prediction'.loading = prediction.loading ]_vars

\* C23 witness: bathrooms 21 and year 1799 both out of range with the area
\* and the bedrooms at their limits: the bathrooms message is the one shown
\* and nothing was sent.
C23_Witness ==
    /\ route = "prediction"
    /\ prediction.propertyType = "SFH"
    /\ prediction.lotArea = <<"1">>
    /\ prediction.bedrooms = <<"5", "0">>
    /\ prediction.bathrooms = <<"2", "1">>
    /\ prediction.yearBuilt = <<"1", "7", "9", "9">>
    /\ prediction.error = Some("Please enter valid bathrooms (0-20)")
    /\ net = <<>>

---------------------------------------------------------------------------
(* Properties of the application, continued (checked under Spec)           *)

\* the three panels with a resetForm: the call, the reset step, and the
\* state of the panel before and after the step
FormCalls == {"search", "predict", "recommend"}

ResetStep(call) ==
    CASE call = "search"    -> searchResetForm
      [] call = "predict"   -> predictionResetForm
      [] call = "recommend" -> recommendationResetForm

PanelState(call) ==
    CASE call = "search"    -> search
      [] call = "predict"   -> prediction
      [] call = "recommend" -> recommendation

PanelInit(call) ==
    CASE call = "search"    -> SearchInit
      [] call = "predict"   -> PredictionInit
      [] call = "recommend" -> RecommendationInit

\* the stored result of a form panel
ResultOf(state) ==
    CASE "searchResults" \in DOMAIN state        -> state.searchResults
      [] "predictionResult" \in DOMAIN state     -> state.predictionResult
      [] "recommendationResult" \in DOMAIN state -> state.recommendationResult

\* reset leaves the panel idle, also when a call is in flight
ResetLeavesIdle ==
    [][ \A call \in FormCalls :
          ResetStep(call) => (AtInitial(PanelState(call)', PanelInit(call)) /\ ~Busy(call)') ]_vars

\* a call that settles on a panel in the state reset leaves (fields, result
\* and error initial) populates neither the result nor the error
ResetPanelStaysEmpty ==
    [][ \A call \in FormCalls : \A i \in Pending(call), o \in Outcomes(BodiesOf(call)) :
          (SettledWith(call, i, o) /\ AtInitial(PanelState(call), PanelInit(call)))
             => /\ ResultOf(PanelState(call)') = Null
                /\ PanelState(call)'.error = Null ]_vars

\* C24: resetForm returns the search, prediction or recommendation panel to
\* its initial state also while a call is in flight: after it the panel is
\* not busy and its result and error are null, and the settlement of a call
\* issued before the reset populates neither, until a new request is
\* triggered.
C24_ResetWhileInFlight == ResetLeavesIdle /\ ResetPanelStaysEmpty

---------------------------------------------------------------------------
(* Properties of the submit handlers, continued (checked under SpecHandlers) *)

\* the budget field holds a number strictly greater than zero
BudgetIsPositive ==
    LET x == Number(search.budget)
    IN  Trim(search.budget) # <<>> /\ x.k = "fin" /\ x.n > 0

---------------------------------------------------------------------------
(* Properties of the comparison engine, continued (checked under SpecCmp)  *)

\* the response with its two records exchanged, and what is rendered for it
Swapped == [Result EXCEPT !.property1 = Result.property2, !.property2 = Result.property1]
SwappedView == renderComparisonResults(Some(Swapped))[1]

\* the mirror of a verdict: Property 1 and Property 2 exchanged, Tie unchanged
Mirror(verdict) ==
    IF verdict = Property1Wins THEN Property2Wins
    ELSE IF verdict = Property2Wins THEN Property1Wins
    ELSE verdict

MirrorClass(winnerClass) ==
    CASE winnerClass = "overall-winner-1" -> "overall-winner-2"
      [] winnerClass = "overall-winner-2" -> "overall-winner-1"
      [] OTHER                            -> winnerClass

\* the comparison of (B, A) is the mirror of the comparison of (A, B)
IsMirrored ==
    /\ \A n \in 1..9 :
          SwappedView.overall.allComparisons[n] = Mirror(View.overall.allComparisons[n])
    /\ \A a \in DOMAIN View.analysis : SwappedView.analysis[a] = Mirror(View.analysis[a])
    /\ SwappedView.overall.property1Wins = View.overall.property2Wins
    /\ SwappedView.overall.property2Wins = View.overall.property1Wins
    /\ SwappedView.overall.ties = View.overall.ties
    /\ SwappedView.overall.winnerClass = MirrorClass(View.overall.winnerClass)
    /\ SwappedView.overall.overallWinner = View.overall.overallWinner

\* C26: for every pair of records, exchanging the two exchanges the outcome:
\* each per-attribute verdict is mirrored, the two win counts are exchanged,
\* the tie count is unchanged and the aggregate verdict is mirrored.
C26_SwapMirrors == IsRendered => IsMirrored

\* a price per square foot that is not a number: price 0 over size 0
ValueIsNaN ==
    \/ Result.property1.price = 0 /\ Result.property1.size_sqft = 0
    \/ Result.property2.price = 0 /\ Result.property2.size_sqft = 0

\* the mirror holds whenever both quotients are numbers
MirroredUnlessNaN == (IsRendered /\ ~ValueIsNaN) => IsMirrored

---------------------------------------------------------------------------
(* Properties of the list panel (checked under Spec)                       *)

\* the property table is rendered
TableShown == ~listing.loading /\ listing.error = Null /\ Len(listing.properties) > 0

\* a step of the detail fetch: its start or its settlement
DetailStep ==
    \/ PropertyIdClicked
    \/ \E i \in Pending("detail"), o \in Outcomes(DetailBodies) : detailsSettledWith(i, o)

\* C27: the list panel has one error field for both fetches: a failed detail
\* fetch sets it, which hides the table; while the panel stays mounted a
\* non-null error becomes null only in the step that starts a list fetch;
\* no step of a detail fetch clears it; and a list fetch that succeeds
\* while an error is standing (set by a detail fetch that failed after the
\* list fetch started) keeps the error and leaves the table hidden.
C27_SharedErrorField ==
    [][ /\ \A i \in Pending("detail"), o \in Outcomes(DetailBodies) :
              FailureStep("detail", i, o) => (listing'.error # Null /\ ~TableShown')
        /\ (route = "properties" /\ route' = route
               /\ listing.error # Null /\ listing'.error = Null)
              => /\ RefreshClicked
                 /\ listing'.loading
                 /\ net'[Len(net')].call = "list"
        /\ (DetailStep /\ listing.error # Null) => listing'.error # Null
        /\ \A i \in Pending("list"), o \in Outcomes(ListBodies) :
              (propertiesSettledWith(i, o) /\ o.kind = "ok" /\ listing.error # Null)
                 => (listing'.error = listing.error /\ ~TableShown') ]_vars

\* C27 witness: a list fetch that succeeded while the error of a failed
\* detail fetch stands: the list is populated, the error is shown, the table
\* is hidden and nothing is pending.
C27_Witness ==
    /\ route = "properties"
    /\ Len(listing.properties) > 0
    /\ listing.error = Some("Failed to fetch details: HTTP error! status: 500")
    /\ ~listing.loading /\ ~listing.detailsLoading
    /\ ~TableShown
    /\ net = <<>>


\* a detail fetch has failed while a list fetch was on its way
DetailFailedDuringList ==
    /\ Pending("list") # {}
    /\ listing.loading
    /\ listing.error # Null


\* the stored result of a panel that posts a form
StoredResult(call) ==
    IF call = "compare" THEN compare.comparisonResult ELSE ResultOf(PanelState(call))

\* the list fetch stores a 2xx body only when it reports success with an array
ListChecksBody ==
    [][ \A i \in Pending("list"), o \in Outcomes(ListBodies) :
          (propertiesSettledWith(i, o) /\ o.kind = "ok")
             => /\ IF o.body.status = "success" /\ o.body.properties # Null
                   THEN /\ listing'.properties = o.body.properties[1]
                        /\ listing'.totalProperties = o.body.total_properties
                   ELSE /\ listing'.properties = <<>>
                        /\ listing'.totalProperties = 0
                /\ listing'.error = listing.error ]_vars

\* the detail fetch opens the modal only for a success body with a property
DetailChecksBody ==
    [][ \A i \in Pending("detail"), o \in Outcomes(DetailBodies) :
          (detailsSettledWith(i, o) /\ o.kind = "ok")
             => IF o.body.status = "success" /\ o.body.property # Null
                THEN listing'.showModal /\ listing'.selectedProperty = o.body.property
                ELSE /\ listing'.showModal = listing.showModal
                     /\ listing'.selectedProperty = listing.selectedProperty ]_vars

\* the four posting panels store every parsed 2xx body
FormsStoreAnyBody ==
    [][ \A call \in FormCalls \cup {"compare"} :
          \A i \in Pending(call), o \in Outcomes(BodiesOf(call)) :
             (SettledWith(call, i, o) /\ o.kind = "ok")
                => StoredResult(call)' = Some(o.body) ]_vars

\* C28: only the list panel looks at the body of a 2xx response: the list
\* fetch stores list and total only for status 'success' with an array of
\* properties and otherwise an empty list and total 0, without an error; the
\* detail fetch opens the modal only for status 'success' with a property;
\* compare, search, prediction and recommendation store every parsed 2xx
\* body as their result, whatever its status or shape.
C28_OnlyListPanelChecksBody ==
    ListChecksBody /\ DetailChecksBody /\ FormsStoreAnyBody

\* C28 witness: the search panel shows as its result a 2xx body that reports
\* an error and has none of the fields of a search response
C28_Witness ==
    /\ route = "search"
    /\ search.searchResults = Some([status |-> "error", message |-> "Location not found"])
    /\ search.error = Null
    /\ ~search.loading

\* the list panel after a 2xx body that does not report success: empty, no error
ListEmptiedWithoutError ==
    /\ route = "properties"
    /\ listing.properties = <<>> /\ listing.totalProperties = 0
    /\ listing.error = Null /\ ~listing.loading /\ net = <<>>

---------------------------------------------------------------------------
(* Properties of the prediction panel (checked under Spec)                 *)

\* a prediction request body carries the area of its property type only,
\* and that area is at least 1
OneAreaField(body) ==
    /\ (body.lot_area # Null) <=> (body.property_type = "SFH")
    /\ (body.building_area # Null) <=> (body.property_type = "Condo")
    /\ (body.lot_area # Null) # (body.building_area # Null)
    /\ body.lot_area # Null => GreaterOrEqual(body.lot_area[1], Num(1))
    /\ body.building_area # Null => GreaterOrEqual(body.building_area[1], Num(1))

\* the area field of the type that is not selected is empty
OtherAreaEmpty ==
    /\ prediction.propertyType = "SFH" => prediction.buildingArea = <<>>
    /\ prediction.propertyType = "Condo" => prediction.lotArea = <<>>

\* the fields of the prediction panel the type select does not write
KeptByTypeChange == DOMAIN PredictionInit \ {"propertyType", "lotArea", "buildingArea"}

\* C29: every prediction request carries exactly one area field, the one of
\* its property type (lot_area iff 'SFH', building_area iff 'Condo'), with a
\* value of at least 1 that is the number in the area input of that type;
\* the area field of the other type is always empty, because changing the
\* property type clears both area fields; and changing the type leaves every
\* other field, the result and the error unchanged.
C29_OneAreaPerType ==
    /\ [](\A r \in Requests("predict") : OneAreaField(r.body))
    /\ []OtherAreaEmpty
    /\ [][ /\ (PredictClicked /\ net' # net)
              => LET body == net'[Len(net')].body
                     area == IF body.property_type = "SFH"
                             THEN body.lot_area ELSE body.building_area
                 IN  /\ body.property_type = prediction.propertyType
                     /\ area = Some(Number(prediction[AreaField(prediction.propertyType)]))
           /\ PropertyTypeChanged
              => /\ prediction'.propertyType # prediction.propertyType
                 /\ prediction'.lotArea = <<>> /\ prediction'.buildingArea = <<>>
                 /\ \A f \in KeptByTypeChange : prediction'[f] = prediction[f]
                 /\ net' = net ]_vars

\* C29 witness: a request for a condominium is on its way with the building
\* area entered for it and no lot area
C29_Witness ==
    /\ route = "prediction"
    /\ \E r \in Requests("predict") :
          /\ r.body.property_type = "Condo"
          /\ r.body.building_area = Some(Num(90))
          /\ r.body.lot_area = Null
    /\ prediction.lotArea = <<>>


\* a detail settlement that does not open the modal: a failure, or a 2xx
\* body that does not report success with a property
OpensNoModal(o) ==
    ~(o.kind = "ok" /\ o.body.status = "success" /\ o.body.property # Null)

\* C30: in the list panel, in every reachable state, showModal true implies
\* a non-null selectedProperty; closeModal sets showModal false and
\* selectedProperty null in one step; and a detail fetch that fails or whose
\* body is not a success with a property changes neither of the two.
C30_ModalHasProperty ==
    /\ [](listing.showModal => listing.selectedProperty # Null)
    /\ [][ /\ ModalClosed => (~listing'.showModal /\ listing'.selectedProperty = Null)
           /\ \A i \in Pending("detail"), o \in Outcomes(DetailBodies) :
                 (detailsSettledWith(i, o) /\ OpensNoModal(o))
                    => /\ listing'.showModal = listing.showModal
                       /\ listing'.selectedProperty = listing.selectedProperty ]_vars

\* C30 witness: the modal is open on a property while the error of a detail
\* fetch that failed after it opened is standing
C30_Witness ==
    /\ route = "properties"
    /\ listing.showModal
    /\ listing.selectedProperty = Some([id |-> 1, title |-> "Maple House", bedrooms |-> 3])
    /\ listing.error = Some("Failed to fetch details: Failed to fetch")
    /\ ~listing.detailsLoading

=============================================================================
